---- MODULE Spec2Model ----
(***************************************************************************)
(* Model of the orchestration layer of spoonos_server:                     *)
(*   - ToolCallWrapper      (core/tools/tool_call_wrapper.py)              *)
(*   - SubAgentTool         (agents/sub_agents.py)                         *)
(*   - stream_agent_events  (core/agents/react_agent.py), "the Bridge"     *)
(*   - chat_completions     (api/routes/openai.py), the OpenAI adapter     *)
(* Text is a sequence of one-character strings, so that prefix tests and   *)
(* slices are computed and not assumed.  uuid4() is a fresh counter.       *)
(***************************************************************************)
EXTENDS Integers, Sequences, FiniteSets, TLC

VARIABLES
    \* ---- ToolCallWrapper ----
    w_tool,       \* self._tool: the tool this wrapper wraps
    w_ctx,        \* self._context: [hasSid, hasCache]
    w_sink,       \* self._emit: "none" (not attached) or "attached"
    tool_cache,   \* context["tool_cache"]: set of [key, value] entries, one per key
    w_calls,      \* history of execute() calls, the last one possibly in flight
    w_nextId,     \* uuid4() source of the wrapper
    \* ---- SubAgentTool ----
    s_agents,     \* self._agents: the names in the registry
    s_sink,       \* self._emit: "none" or "queue"
    s_calls,      \* history of execute() calls, the last one possibly in flight
    s_nextId,     \* uuid4() source of the delegation tool
    nested_queue, \* the output queues of the registry's agents (one history)
    \* ---- the background run (agent.run inside run_and_signal) ----
    r_state,      \* "idle", "running", "returned", "raised"
    r_result,     \* the value agent.run returned
    r_puts,       \* history: the items the run has put on its output queue
    task_done,    \* agent.task_done
    queue,        \* agent.output_queue
    agent_timeout,\* agent._default_timeout
    \* ---- stream_agent_events (the Bridge) ----
    b_pc,         \* "idle", "loop", "get", "timedout", "join", "yield_done",
                  \* "completed", "failed", "closed"
    b_timeout,    \* the timeout argument
    b_original,   \* original_timeout
    b_buffer,     \* buffer
    b_messageId,  \* message_id
    b_nextId,     \* uuid4() source of the Bridge
    b_out,        \* the messages yielded so far
    \* ---- chat_completions.stream_response (the OpenAI adapter) ----
    a_pc,         \* "streaming", "done", "aborted", "closed", "returned", "name_error",
                  \* "format_error"
    a_pos,        \* number of Bridge messages consumed
    last_text,    \* last_text
    sent_role,    \* sent_role
    seen_tool_calls, \* seen_tool_calls (its keys)
    a_frames,     \* the frames written to the response
    \* ---- chat_completions without stream, and stream_agent.event_stream ----
    final_text,   \* final_text of the non-streaming path
    stream_mode,  \* request.stream_mode of the native route: "sse" or "raw"
    \* ---- two requests served concurrently ----
    requests,     \* per request: its agent, emit closure, queue and Bridge
    uuid_next,    \* uuid4() source shared by the process
    \* ---- a second wrapper and delegation tool, built alike, emit attached ----
    ref,          \* [calls, cache, scalls]: their call histories and cache
    \* ---- SubAgentTool._coerce_ai_message on its own ----
    coerced       \* history of its applications: [arg, ret]

wvars == <<w_tool, w_ctx, w_sink, tool_cache, w_calls, w_nextId>>

svars == <<s_agents, s_sink, s_calls, s_nextId, nested_queue>>

rvars == <<r_state, r_result, r_puts, task_done, queue, agent_timeout>>

bvars == <<b_pc, b_timeout, b_original, b_buffer, b_messageId, b_nextId, b_out>>

avars == <<a_pc, a_pos, last_text, sent_role, seen_tool_calls, a_frames>>

\* the variables no action of the single-request components writes
cvars == <<final_text, stream_mode, requests, uuid_next, ref, coerced>>

vars == <<w_tool, w_ctx, w_sink, tool_cache, w_calls, w_nextId,
          s_agents, s_sink, s_calls, s_nextId, nested_queue,
          r_state, r_result, r_puts, task_done, queue, agent_timeout,
          b_pc, b_timeout, b_original, b_buffer, b_messageId, b_nextId, b_out,
          a_pc, a_pos, last_text, sent_role, seen_tool_calls, a_frames,
          final_text, stream_mode, requests, uuid_next, ref, coerced>>

(***************************************************************************)
(* Bounds                                                                  *)
(***************************************************************************)
MaxCalls == 2
MaxSinkFailures == 1
MaxSubCalls == 2
MaxPuts == 3
MaxNestedPuts == 1
MaxRequestPuts == 2

\* no second wrapper or delegation tool is built
NoRef == [calls |-> <<>>, cache |-> {}, scalls |-> <<>>]

(***************************************************************************)
(* Values (Python objects that travel as tool results and outputs)         *)
(***************************************************************************)
NoneVal == [t |-> "none", v |-> <<>>]
StrVal(s) == [t |-> "str", v |-> s]
ErrDict(msg) == [t |-> "err", v |-> msg]        \* the dict {"error": msg}

\* what a wrapped tool may return, and the messages it may raise with
ToolResults == {NoneVal, StrVal(<<"o", "k">>)}
ExcMessages == {<<>>, <<"E">>}
ToolOutcomes ==
    {[ok |-> TRUE, val |-> r, msg |-> <<>>] : r \in ToolResults}
    \cup {[ok |-> FALSE, val |-> NoneVal, msg |-> m] : m \in ExcMessages}
NoOutcome == [ok |-> FALSE, val |-> NoneVal, msg |-> <<"-">>]

(***************************************************************************)
(* Wrapped tools and their arguments                                       *)
(***************************************************************************)
Tools == {"price", "search", "opaque"}

\* inspect.signature(tool.execute): "price" declares session_id (or **kwargs),
\* "search" does not, and "opaque" has no introspectable signature.
SigRaises(tool) == tool = "opaque"
SigAccepts(tool) == tool = "price"

CtxSid == "ctx-sid"

\* keyword arguments in call order: a sequence of <<name, value>> pairs with
\* distinct names.  The value "obj" is not JSON-serialisable.
ArgSets ==
    { << <<"n", "y">>, <<"q", "x">> >>,
      << <<"q", "x">>, <<"n", "y">> >>,
      << <<"q", "obj">> >>,
      << <<"q", "x">>, <<"session_id", "own">> >> }

KeyRank(k) == CASE k = "n" -> 1 [] k = "q" -> 2 [] k = "session_id" -> 3 [] OTHER -> 4

Keys(kwargs) == {kwargs[i][1] : i \in 1..Len(kwargs)}

RECURSIVE DropKey(_, _)
DropKey(kwargs, k) ==
    IF kwargs = <<>> THEN <<>>
    ELSE IF Head(kwargs)[1] = k THEN DropKey(Tail(kwargs), k)
    ELSE <<Head(kwargs)>> \o DropKey(Tail(kwargs), k)

RECURSIVE InsertSorted(_, _)
InsertSorted(pair, sorted) ==
    IF sorted = <<>> THEN <<pair>>
    ELSE IF KeyRank(pair[1]) <= KeyRank(Head(sorted)[1]) THEN <<pair>> \o sorted
    ELSE <<Head(sorted)>> \o InsertSorted(pair, Tail(sorted))

RECURSIVE SortKeys(_)
SortKeys(kwargs) ==
    IF kwargs = <<>> THEN <<>>
    ELSE InsertSorted(Head(kwargs), SortKeys(Tail(kwargs)))

Serializable(kwargs) == \A i \in 1..Len(kwargs) : kwargs[i][2] # "obj"

\* a variant of the injection that also replaces a session_id of the caller
inject_session_id_overwrites(ctx, tool, kwargs) ==
    IF ctx.hasSid /\ (SigRaises(tool) \/ SigAccepts(tool))
    THEN DropKey(kwargs, "session_id") \o << <<"session_id", CtxSid>> >>
    ELSE kwargs

\* lines 66-76: session-id injection
inject_session_id(ctx, tool, kwargs) ==
    IF ctx.hasSid /\ "session_id" \notin Keys(kwargs)
    THEN IF SigRaises(tool) \/ SigAccepts(tool)
         THEN kwargs \o << <<"session_id", CtxSid>> >>
         ELSE kwargs
    ELSE kwargs

\* lines 80-89: json.dumps(key_payload, sort_keys=True), or str(key_payload)
\* when a value is not serialisable (str keeps the call order)
cache_key(tool, kwargs) ==
    LET payload == DropKey(kwargs, "session_id")
    IN  IF Serializable(payload)
        THEN [form |-> "json", tool |-> tool, kw |-> SortKeys(payload)]
        ELSE [form |-> "str", tool |-> tool, kw |-> payload]

NoKey == [form |-> "none", tool |-> "", kw |-> <<>>]

CacheHas(cache, key) == \E e \in cache : e.key = key
CacheGet(cache, key) == (CHOOSE e \in cache : e.key = key).value
CachePut(cache, key, val) == {e \in cache : e.key # key} \cup {[key |-> key, value |-> val]}

\* line 90-91: cached = tool_cache.get(cache_key); if cached is not None
cache_lookup_hit(cache, key) == CacheHas(cache, key) /\ CacheGet(cache, key) # NoneVal

(***************************************************************************)
(* ToolCallWrapper                                                         *)
(***************************************************************************)
SinkMsg == <<"S">>      \* str(exc) of an exception raised by the sink

NoPart ==
    [type |-> <<>>, toolCallId |-> 0, state |-> "", input |-> [description |-> "", kwargs |-> <<>>],
     hasOutput |-> FALSE, output |-> NoneVal, hasError |-> FALSE, errorText |-> <<>>]

\* input_payload = {"description": self.description, **kwargs}  (lines 93, 107)
input_payload(tool, kwargs) == [description |-> tool, kwargs |-> kwargs]

\* a variant of _emit_tool_message that forgets to attach the output
w_tool_part_drops_output(tool, id, state, input, output, error_text) ==
    [type |-> <<"tool-", tool>>, toolCallId |-> id, state |-> state, input |-> input,
     hasOutput |-> FALSE, output |-> NoneVal,
     hasError |-> (error_text # <<>>), errorText |-> error_text]

\* lines 48-57: the tool part built by _emit_tool_message; the type is the
\* formatted string f"tool-{self.name}", kept as its two segments
w_tool_part(tool, id, state, input, output, error_text) ==
    [type |-> <<"tool-", tool>>, toolCallId |-> id, state |-> state, input |-> input,
     hasOutput |-> (error_text = <<>> /\ state = "output-available"),
     output |-> IF error_text = <<>> /\ state = "output-available" THEN output ELSE NoneVal,
     hasError |-> (error_text # <<>>),
     errorText |-> error_text]

EmitEntry(part) == [k |-> "emit", part |-> part]
InvokeEntry == [k |-> "invoke", part |-> NoPart]

\* a variant of the except clause that returns nothing
error_return_none(msg) == NoneVal

\* line 131: return {"error": str(exc)}
error_return(msg) == ErrDict(msg)

\* a variant of the emission without the guard of lines 46-47
w_emitted_unguarded(sink, part) == <<EmitEntry(part)>>

\* a variant of the emission that hands the message to the sink twice
w_emitted_twice(sink, part) ==
    IF sink = "none" THEN <<>> ELSE <<EmitEntry(part), EmitEntry(part)>>

\* lines 46-47 and 63: nothing is emitted without a sink
w_emitted(sink, part) == IF sink = "none" THEN <<>> ELSE <<EmitEntry(part)>>

\* whether one emission may raise: the call of an attached sink may fail,
\* in at most MaxSinkFailures calls
SinkFail ==
    IF w_sink = "attached"
       /\ Cardinality({i \in 1..Len(w_calls) : w_calls[i].sinkFailed}) < MaxSinkFailures
    THEN BOOLEAN ELSE {FALSE}

InFlight == w_calls # <<>> /\ w_calls[Len(w_calls)].status = "invoking"

WInit ==
    /\ w_tool \in Tools
    /\ w_ctx \in [hasSid : BOOLEAN, hasCache : BOOLEAN]
    /\ w_sink = "none"
    /\ tool_cache = {}
    /\ w_calls = <<>>
    /\ w_nextId = 1
    \* the other components stay as constructed
    /\ s_agents = {"researcher"}
    /\ s_sink = "none"
    /\ s_calls = <<>>
    /\ s_nextId = 1
    /\ nested_queue = <<>>
    /\ r_state = "idle" /\ r_result = [has |-> FALSE, text |-> <<>>] /\ r_puts = <<>>
    /\ task_done = FALSE /\ queue = <<>> /\ agent_timeout = 30
    /\ b_pc = "idle" /\ b_timeout = 120 /\ b_original = 30 /\ b_buffer = <<>>
    /\ b_messageId = 0 /\ b_nextId = 100 /\ b_out = <<>>
    /\ a_pc = "streaming" /\ a_pos = 0 /\ last_text = <<>> /\ sent_role = FALSE
    /\ seen_tool_calls = {} /\ a_frames = <<>>
    /\ requests = <<>> /\ uuid_next = 0 /\ ref = NoRef /\ coerced = <<>>
    /\ final_text = <<>> /\ stream_mode = "sse"

\* set_emit (lines 32-35), called by create_react_agent after construction and
\* before the agent runs (react_agent.py lines 99-100)
set_emit ==
    /\ w_sink = "none"
    /\ w_calls = <<>>
    /\ w_sink' = "attached"
    /\ UNCHANGED <<w_tool, w_ctx, tool_cache, w_calls, w_nextId>>
    /\ UNCHANGED <<svars, rvars, bvars, avars, cvars>>

\* execute, lines 65-112, as a function of the wrapper's fields: the record of
\* a call from entry up to the invocation of the wrapped tool (a cache hit
\* runs to the return at line 105); f1 and f2 say which emission raises
execute_entry(tool, ctx, sink, cache, id, kwargs, f1, f2) ==
    LET passed == inject_session_id(ctx, tool, kwargs)
        key == IF ctx.hasCache THEN cache_key(tool, passed) ELSE NoKey
        hit == ctx.hasCache /\ cache_lookup_hit(cache, key)
        inp == input_payload(tool, passed)
        e1 == w_emitted(sink, w_tool_part(tool, id, "input-available", inp, NoneVal, <<>>))
        cached == IF hit THEN CacheGet(cache, key) ELSE NoneVal
        e2 == w_emitted(sink, w_tool_part(tool, id, "output-available", inp, cached, <<>>))
        base == [tool |-> tool, args |-> kwargs, passed |-> passed, key |-> key,
                 hit |-> hit, id |-> id, sink |-> sink, trace |-> <<>>,
                 status |-> "raised",
                 ret |-> NoneVal, outcome |-> NoOutcome, sinkFailed |-> FALSE]
    IN  IF f1
        THEN [base EXCEPT !.sinkFailed = TRUE]
        ELSE IF hit
        THEN IF f2
             THEN [base EXCEPT !.trace = e1, !.sinkFailed = TRUE]
             ELSE [base EXCEPT !.trace = e1 \o e2, !.status = "returned",
                               !.ret = cached]
        ELSE [base EXCEPT !.trace = e1 \o <<InvokeEntry>>, !.status = "invoking"]

\* execute, lines 112-131, as a function: the record of the call c once the
\* wrapped tool has returned or raised
execute_exit(c, sink, outcome, f1, f2) ==
    LET inp == input_payload(c.tool, c.passed)
        okPart == w_tool_part(c.tool, c.id, "output-available", inp, outcome.val, <<>>)
        errMsg == IF outcome.ok THEN SinkMsg ELSE outcome.msg
        errPart == w_tool_part(c.tool, c.id, "output-error", inp, NoneVal, errMsg)
        \* the except clause, lines 124-131
        handler(tr) ==
            IF f2
            THEN [c EXCEPT !.trace = tr, !.status = "raised", !.outcome = outcome,
                           !.sinkFailed = TRUE]
            ELSE [c EXCEPT !.trace = tr \o w_emitted(sink, errPart),
                           !.status = "returned", !.ret = error_return(errMsg),
                           !.outcome = outcome, !.sinkFailed = f1]
    IN  IF outcome.ok
        THEN IF f1
             THEN handler(c.trace)
             ELSE [c EXCEPT !.trace = c.trace \o w_emitted(sink, okPart),
                            !.status = "returned", !.ret = outcome.val,
                            !.outcome = outcome]
        ELSE handler(c.trace)

\* a variant of the store that also remembers a failure as its error value
execute_store_caches_errors(ctx, cache, c, outcome, f1) ==
    IF ctx.hasCache /\ c.key # NoKey
    THEN CachePut(cache, c.key, IF outcome.ok THEN outcome.val ELSE ErrDict(outcome.msg))
    ELSE cache

\* lines 121-122: the cache after the call c; only a result that was
\* returned and announced is stored
execute_store(ctx, cache, c, outcome, f1) ==
    IF outcome.ok /\ ~f1 /\ ctx.hasCache /\ c.key # NoKey
    THEN CachePut(cache, c.key, outcome.val)
    ELSE cache

\* execute, lines 65-112: from entry up to the invocation of the wrapped tool
\* (a cache hit runs to the return at line 105)
execute_begin(kwargs, f1, f2) ==
    /\ Len(w_calls) < MaxCalls
    /\ ~InFlight
    /\ LET rec == execute_entry(w_tool, w_ctx, w_sink, tool_cache, w_nextId, kwargs, f1, f2)
       IN  /\ (f2 => rec.hit /\ ~f1)
           /\ w_calls' = Append(w_calls, rec)
           /\ w_nextId' = w_nextId + 1
    /\ UNCHANGED <<w_tool, w_ctx, w_sink, tool_cache>>
    /\ UNCHANGED <<svars, rvars, bvars, avars, cvars>>

\* execute, lines 112-131: the wrapped tool returns or raises
execute_finish(outcome, f1, f2) ==
    /\ InFlight
    /\ LET n == Len(w_calls)
           c == w_calls[n]
       IN  /\ (~outcome.ok => ~f1)
           /\ w_calls' = [w_calls EXCEPT ![n] = execute_exit(c, w_sink, outcome, f1, f2)]
           /\ tool_cache' = execute_store(w_ctx, tool_cache, c, outcome, f1)
    /\ UNCHANGED <<w_tool, w_ctx, w_sink, w_nextId>>
    /\ UNCHANGED <<svars, rvars, bvars, avars, cvars>>

WrapperNext ==
    \/ set_emit
    \/ \E kwargs \in ArgSets, f1 \in SinkFail, f2 \in SinkFail :
          execute_begin(kwargs, f1, f2)
    \/ \E outcome \in ToolOutcomes, f1 \in SinkFail, f2 \in SinkFail :
          execute_finish(outcome, f1, f2)

SpecWrapper == WInit /\ [][WrapperNext]_vars

(***************************************************************************)
(* Derived views of a call's trace                                         *)
(***************************************************************************)
Events(c) == SelectSeq(c.trace, LAMBDA e : e.k = "emit")
Invocations(c) == Len(SelectSeq(c.trace, LAMBDA e : e.k = "invoke"))
Done(c) == c.status # "invoking"
CallIdx == 1..Len(w_calls)

\* the case the lifecycle claims are about: a finished call made with a sink
\* attached, none of whose emissions raised
Observed(c) == Done(c) /\ c.sink # "none" /\ ~c.sinkFailed
ToolSucceeded(c) == Done(c) /\ ~c.hit /\ c.outcome.ok
ToolRaised(c) == Done(c) /\ ~c.hit /\ ~c.outcome.ok /\ c.outcome # NoOutcome

(***************************************************************************)
(* C2: when T(I) succeeds on a cache miss, execute emits exactly           *)
(* input-available (before T is invoked) and then output-available (after  *)
(* T returned, carrying T's result), both under one toolCallId, and        *)
(* returns T's result.                                                     *)
(***************************************************************************)
ClaimC2 ==
    \A i \in CallIdx :
        LET c == w_calls[i] IN
        (Observed(c) /\ ToolSucceeded(c)) =>
            /\ Len(c.trace) = 3
            /\ c.trace[1].k = "emit" /\ c.trace[1].part.state = "input-available"
            /\ c.trace[2].k = "invoke"
            /\ c.trace[3].k = "emit" /\ c.trace[3].part.state = "output-available"
            /\ c.trace[3].part.hasOutput /\ c.trace[3].part.output = c.outcome.val
            /\ c.trace[1].part.toolCallId = c.trace[3].part.toolCallId
            /\ c.status = "returned" /\ c.ret = c.outcome.val

WitnessC2 ==
    \E i \in CallIdx : Observed(w_calls[i]) /\ ToolSucceeded(w_calls[i])
                       /\ w_calls[i].outcome.val = StrVal(<<"o", "k">>)

(***************************************************************************)
(* C3: when T(I) raises, execute emits exactly input-available and then    *)
(* output-error under one toolCallId, returns {"error": <message>} and     *)
(* does not raise.                                                         *)
(***************************************************************************)
ClaimC3 ==
    \A i \in CallIdx :
        LET c == w_calls[i] IN
        (Observed(c) /\ ToolRaised(c)) =>
            /\ Len(Events(c)) = 2
            /\ Events(c)[1].part.state = "input-available"
            /\ Events(c)[2].part.state = "output-error"
            /\ Events(c)[1].part.toolCallId = Events(c)[2].part.toolCallId
            /\ c.trace[Len(c.trace)] = Events(c)[2]
            /\ c.status = "returned"
            /\ c.ret = [t |-> "err", v |-> c.outcome.msg]

WitnessC3 ==
    \E i \in CallIdx : Observed(w_calls[i]) /\ ToolRaised(w_calls[i])
                       /\ w_calls[i].outcome.msg = <<"E">>

(***************************************************************************)
(* C4 (as stated): whatever value T(I) returns, a second call with the     *)
(* same I in the same cache scope does not invoke T again, returns the     *)
(* first call's result and emits the (input-available, output-available)   *)
(* pair with the cached value.                                             *)
(***************************************************************************)
ClaimC4 ==
    \A i \in CallIdx : \A j \in CallIdx :
        LET c == w_calls[i]
            d == w_calls[j] IN
        (/\ i < j /\ w_ctx.hasCache
         /\ Observed(c) /\ ToolSucceeded(c)
         /\ Observed(d) /\ d.args = c.args) =>
            /\ Invocations(d) = 0
            /\ d.status = "returned" /\ d.ret = c.ret
            /\ Len(Events(d)) = 2
            /\ Events(d)[1].part.state = "input-available"
            /\ Events(d)[2].part.state = "output-available"
            /\ Events(d)[2].part.output = c.ret
            /\ Events(d)[1].part.toolCallId = Events(d)[2].part.toolCallId
            /\ Events(d)[1].part.input = Events(c)[1].part.input

(***************************************************************************)
(* C5 (as stated): execute never raises; every failure during the call,    *)
(* lifecycle emission included, becomes a returned {"error": message}.     *)
(***************************************************************************)
ClaimC5 ==
    \A i \in CallIdx :
        LET c == w_calls[i] IN
        Done(c) =>
            /\ c.status = "returned"
            /\ (c.sinkFailed \/ ToolRaised(c)) => c.ret.t = "err"

(***************************************************************************)
(* SubAgentTool                                                            *)
(***************************************************************************)
AgentNames == {"researcher", "writer"}
CallNames == {"ghost", "researcher", "writer"}
CallMessages == {"hi"}
CallDescriptions == {"", "why"}

\* a StructuredMessage whose parts are text parts or (opaque) tool parts
TextPart(text, state) == [type |-> "text", text |-> text, state |-> state]
OtherPart == [type |-> "tool-x", text |-> <<>>, state |-> "output-available"]
AIMessage(id, parts) == [id |-> id, role |-> "assistant", parts |-> parts]
NoMsg == [id |-> 0, role |-> "", parts |-> <<>>]

\* what a nested agent.run may return
NestedMessages ==
    { AIMessage(90, <<TextPart(<<"A">>, "done"), OtherPart, TextPart(<<"B">>, "done")>>),
      AIMessage(91, <<OtherPart>>) }
NestedResults ==
    {[kind |-> "str", text |-> t, msg |-> NoMsg] : t \in {<<>>, <<"A">>, <<" ", "A", " ">>}}
    \cup {[kind |-> k, text |-> <<>>, msg |-> m] : k \in {"msg", "json"}, m \in NestedMessages}
    \cup {[kind |-> "obj", text |-> <<"N", "o", "n", "e">>, msg |-> NoMsg]}
NoResult == [kind |-> "", text |-> <<>>, msg |-> NoMsg]

\* lines 63-86: _coerce_ai_message.  A "json" result is a str that json.loads
\* decodes to a message; an "obj" result is wrapped through str(result).
coerce_ai_message(result, freshId) ==
    IF result.kind \in {"msg", "json"} THEN result.msg
    ELSE AIMessage(freshId, <<TextPart(result.text, "done")>>)

RECURSIVE JoinTexts(_)
JoinTexts(parts) ==
    IF parts = <<>> THEN <<>>
    ELSE (IF Head(parts).type = "text" THEN Head(parts).text ELSE <<>>)
         \o JoinTexts(Tail(parts))

IsSpace(ch) == ch = " "

RECURSIVE LStrip(_)
LStrip(t) == IF t # <<>> /\ IsSpace(Head(t)) THEN LStrip(Tail(t)) ELSE t

RECURSIVE RStrip(_)
RStrip(t) ==
    IF t # <<>> /\ IsSpace(t[Len(t)]) THEN RStrip(SubSeq(t, 1, Len(t) - 1)) ELSE t

Strip(t) == RStrip(LStrip(t))

\* a variant of _extract_text that does not strip
extract_text_no_strip(ai_message) == JoinTexts(ai_message.parts)

\* lines 88-94: _extract_text
extract_text(ai_message) == Strip(JoinTexts(ai_message.parts))

\* lines 135-136: the description defaults when it is empty.  A formatted
\* string is the sequence of its segments.
effective_description(name, description) ==
    IF description = "" THEN <<"Call sub-agent ", name>> ELSE <<description>>

\* a variant of the error text that leaves the name out
unknown_error_text_no_name(name) == <<"Unknown sub-agent: ">>

\* line 140: f"Unknown sub-agent: {name}"
unknown_error_text(name) == <<"Unknown sub-agent: ", name>>

\* lines 109-124: the tool part built by SubAgentTool._emit_tool_message;
\* every part that is not an error carries an "output" key
s_tool_part(id, name, message, description, state, output, error_text) ==
    [type |-> "tool-subAgentCall", toolCallId |-> id,
     state |-> IF error_text # <<>> THEN "output-error" ELSE state,
     input |-> [name |-> name, message |-> message, description |-> description],
     hasOutput |-> (error_text = <<>>),
     output |-> IF error_text = <<>> THEN output ELSE NoMsg,
     hasError |-> (error_text # <<>>),
     errorText |-> error_text]

NoSPart == s_tool_part(0, "", "", <<>>, "", NoMsg, <<>>)
SEmit(part) == [k |-> "emit", part |-> part]
SRun(name) == [k |-> "run", part |-> [NoSPart EXCEPT !.input.name = name]]

\* lines 107-108 and 130
s_emitted(sink, part) == IF sink = "none" THEN <<>> ELSE <<SEmit(part)>>

SInFlight == s_calls # <<>> /\ s_calls[Len(s_calls)].status = "running"

SInit ==
    /\ s_agents \in {{"researcher"}, AgentNames}
    /\ s_sink = "none"
    /\ s_calls = <<>>
    /\ s_nextId = 1
    /\ nested_queue = <<>>
    \* the other components stay as constructed
    /\ w_tool = "search"
    /\ w_ctx = [hasSid |-> FALSE, hasCache |-> FALSE]
    /\ w_sink = "none"
    /\ tool_cache = {}
    /\ w_calls = <<>>
    /\ w_nextId = 1
    /\ r_state = "idle" /\ r_result = [has |-> FALSE, text |-> <<>>] /\ r_puts = <<>>
    /\ task_done = FALSE /\ queue = <<>> /\ agent_timeout = 30
    /\ b_pc = "idle" /\ b_timeout = 120 /\ b_original = 30 /\ b_buffer = <<>>
    /\ b_messageId = 0 /\ b_nextId = 100 /\ b_out = <<>>
    /\ a_pc = "streaming" /\ a_pos = 0 /\ last_text = <<>> /\ sent_role = FALSE
    /\ seen_tool_calls = {} /\ a_frames = <<>>
    /\ requests = <<>> /\ uuid_next = 0 /\ ref = NoRef /\ coerced = <<>>
    /\ final_text = <<>> /\ stream_mode = "sse"

\* set_emit (lines 50-53), called by create_react_agent (react_agent.py 102-103)
s_set_emit ==
    /\ s_sink = "none"
    /\ ~SInFlight
    /\ s_sink' = "queue"
    /\ UNCHANGED <<s_agents, s_calls, s_nextId, nested_queue>>
    /\ UNCHANGED <<wvars, rvars, bvars, avars, cvars>>

\* execute, lines 132-158, as a function of the tool's fields: the record of
\* a call from entry up to the await of the nested run
s_execute_entry(agents, sink, id, name, message, description) ==
    LET desc == effective_description(name, description)
        known == name \in agents
        errPart == s_tool_part(id, name, message, desc, "output-error", NoMsg,
                               unknown_error_text(name))
        inPart == s_tool_part(id, name, message, desc, "input-available", NoMsg, <<>>)
        base == [name |-> name, message |-> message, description |-> description,
                 id |-> id, sink |-> sink, known |-> known, trace |-> <<>>,
                 status |-> "running", result |-> NoResult, outcome |-> "none",
                 ret |-> [kind |-> "text", text |-> <<>>, msg |-> NoMsg]]
    IN  IF ~known
        THEN [base EXCEPT !.trace = s_emitted(sink, errPart),
                          !.status = "returned",
                          !.ret.text = unknown_error_text(name)]
        ELSE [base EXCEPT !.trace = s_emitted(sink, inPart) \o <<SRun(name)>>]

\* execute, lines 158-171, as a function: the record of the call c once the
\* nested run has returned result
s_execute_exit(c, sink, freshId, result) ==
    LET desc == effective_description(c.name, c.description)
        ai_message == coerce_ai_message(result, freshId)
        outPart == s_tool_part(c.id, c.name, c.message, desc, "output-available",
                               ai_message, <<>>)
        text == extract_text(ai_message)
    IN  [c EXCEPT !.trace = c.trace \o s_emitted(sink, outPart),
                  !.status = "returned", !.result = result,
                  !.outcome = "returned",
                  !.ret = IF text # <<>>
                          THEN [kind |-> "text", text |-> text, msg |-> NoMsg]
                          ELSE [kind |-> "json", text |-> <<>>, msg |-> ai_message]]

\* execute, lines 132-158: an unknown name runs to the return at line 149,
\* a known name up to the await of the nested run
s_execute_begin(name, message, description) ==
    /\ Len(s_calls) < MaxSubCalls
    /\ ~SInFlight
    /\ s_calls' = Append(s_calls,
                         s_execute_entry(s_agents, s_sink, s_nextId,
                                         name, message, description))
    /\ s_nextId' = s_nextId + 1
    /\ UNCHANGED <<s_agents, s_sink, nested_queue>>
    /\ UNCHANGED <<wvars, rvars, bvars, avars, cvars>>

\* execute, lines 158-171: the nested run returns
s_execute_finish(result) ==
    /\ SInFlight
    /\ s_calls' = [s_calls EXCEPT ![Len(s_calls)] =
                       s_execute_exit(s_calls[Len(s_calls)], s_sink, s_nextId, result)]
    /\ s_nextId' = s_nextId + 2
    /\ UNCHANGED <<s_agents, s_sink, nested_queue>>
    /\ UNCHANGED <<wvars, rvars, bvars, avars, cvars>>

\* what a nested run streams while it works
NestedDeltas == {<<"A">>}

\* a variant in which the registry's agents share the parent's queue
nested_put_to_parent(delta) ==
    /\ SInFlight
    /\ Len(nested_queue) < MaxNestedPuts
    /\ nested_queue' = Append(nested_queue, [agent |-> s_calls[Len(s_calls)].name,
                                             delta |-> delta])
    /\ s_calls' = [s_calls EXCEPT ![Len(s_calls)].trace =
                      @ \o s_emitted(s_sink, [NoSPart EXCEPT !.type = "text"])]
    /\ UNCHANGED <<s_agents, s_sink, s_nextId>>
    /\ UNCHANGED <<wvars, rvars, bvars, avars, cvars>>

\* lines 193-198 of _create_subagent: an agent of the registry is a
\* SpoonReactAI of its own, built from unwrapped tools and never given the
\* parent's emit; what its run streams goes to its own output queue
nested_put(delta) ==
    /\ SInFlight
    /\ Len(nested_queue) < MaxNestedPuts
    /\ nested_queue' = Append(nested_queue, [agent |-> s_calls[Len(s_calls)].name,
                                             delta |-> delta])
    /\ UNCHANGED <<s_agents, s_sink, s_calls, s_nextId>>
    /\ UNCHANGED <<wvars, rvars, bvars, avars, cvars>>

\* a variant of execute that catches the exception of the nested run the
\* way ToolCallWrapper does
s_execute_raise_caught ==
    /\ SInFlight
    /\ LET n == Len(s_calls)
           c == s_calls[n]
           desc == effective_description(c.name, c.description)
           errPart == s_tool_part(c.id, c.name, c.message, desc, "output-error", NoMsg,
                                  <<"E">>)
       IN  s_calls' = [s_calls EXCEPT ![n] =
               [c EXCEPT !.trace = c.trace \o s_emitted(s_sink, errPart),
                         !.status = "returned", !.outcome = "raised",
                         !.ret.text = <<"E">>]]
    /\ UNCHANGED <<s_agents, s_sink, s_nextId, nested_queue>>
    /\ UNCHANGED <<wvars, rvars, bvars, avars, cvars>>

\* execute, line 158: the nested run raises; nothing in execute catches it
s_execute_raise ==
    /\ SInFlight
    /\ s_calls' = [s_calls EXCEPT ![Len(s_calls)].status = "raised",
                                  ![Len(s_calls)].outcome = "raised"]
    /\ UNCHANGED <<s_agents, s_sink, s_nextId, nested_queue>>
    /\ UNCHANGED <<wvars, rvars, bvars, avars, cvars>>

SubAgentNext ==
    \/ s_set_emit
    \/ \E name \in CallNames, message \in CallMessages, description \in CallDescriptions :
          s_execute_begin(name, message, description)
    \/ \E delta \in NestedDeltas : nested_put(delta)
    \/ \E result \in NestedResults : s_execute_finish(result)
    \/ s_execute_raise

SpecSubAgent == SInit /\ [][SubAgentNext]_vars

SEvents(c) == SelectSeq(c.trace, LAMBDA e : e.k = "emit")
SRuns(c) == Len(SelectSeq(c.trace, LAMBDA e : e.k = "run"))
SCallIdx == 1..Len(s_calls)

(***************************************************************************)
(* C6 (as stated): for a name that is not in the registry, execute returns *)
(* a string containing "Unknown sub-agent: <name>", emits exactly one      *)
(* event, in state output-error, whose input is the name, the message and  *)
(* the description it was called with, runs no agent and does not raise.   *)
(***************************************************************************)
UnknownCall(c) == c.name \notin s_agents /\ c.sink # "none"

ClaimC6 ==
    \A i \in SCallIdx :
        LET c == s_calls[i] IN
        UnknownCall(c) =>
            /\ c.status = "returned"
            /\ c.ret.kind = "text"
            /\ c.ret.text = <<"Unknown sub-agent: ", c.name>>
            /\ Len(c.trace) = 1
            /\ c.trace[1].k = "emit"
            /\ c.trace[1].part.state = "output-error"
            /\ c.trace[1].part.input.name = c.name
            /\ c.trace[1].part.input.message = c.message
            /\ c.trace[1].part.input.description = <<c.description>>

(***************************************************************************)
(* C6 (amended): as above, but the event carries the description only when *)
(* it is not empty; an empty description is replaced by                    *)
(* "Call sub-agent <name>" before the event is built.                      *)
(***************************************************************************)
ClaimC6Amended ==
    \A i \in SCallIdx :
        LET c == s_calls[i] IN
        UnknownCall(c) =>
            /\ c.status = "returned"
            /\ c.ret.kind = "text"
            /\ c.ret.text = <<"Unknown sub-agent: ", c.name>>
            /\ Len(c.trace) = 1
            /\ c.trace[1].k = "emit"
            /\ c.trace[1].part.state = "output-error"
            /\ c.trace[1].part.hasError
            /\ c.trace[1].part.input.name = c.name
            /\ c.trace[1].part.input.message = c.message
            /\ c.trace[1].part.input.description =
                  IF c.description = "" THEN <<"Call sub-agent ", c.name>>
                  ELSE <<c.description>>

WitnessC6 ==
    \E i \in SCallIdx : UnknownCall(s_calls[i]) /\ s_calls[i].name = "ghost"
                        /\ s_calls[i].description = ""


(***************************************************************************)
(* The background run and the Bridge (stream_agent_events)                 *)
(***************************************************************************)
Timeouts == {5, 120}
\* the value of agent._default_timeout before the Bridge starts
AgentTimeouts == {30}

NoText == [has |-> FALSE, text |-> <<>>]        \* None
SomeText(t) == [has |-> TRUE, text |-> t]

\* what agent.run may return: None, "", a text equal to a possible buffer,
\* and a text that is no extension of any buffer
RunResults == {NoText, SomeText(<<>>), SomeText(<<"A">>), SomeText(<<"Z">>)}

\* a part of a message on the stream: a text part, or a tool part as built by
\* ToolCallWrapper._emit_tool_message
StreamTextPart(text, state) ==
    [type |-> "text", text |-> text, state |-> state, tool |-> NoPart]
StreamToolPart(p) == [type |-> "tool", text |-> <<>>, state |-> p.state, tool |-> p]

ToolInput == input_payload("price", << <<"q", "x">> >>)

\* the lifecycle messages a wrapper puts on the queue through emit
\* (react_agent.py lines 96-100)
ToolMessages ==
    { AIMessage(71, <<StreamToolPart(
          w_tool_part("price", 7, "input-available", ToolInput, NoneVal, <<>>))>>),
      AIMessage(72, <<StreamToolPart(
          w_tool_part("price", 7, "output-available", ToolInput, StrVal(<<"o", "k">>), <<>>))>>),
      AIMessage(73, <<StreamToolPart(
          w_tool_part("price", 7, "output-error", ToolInput, NoneVal, <<"E">>))>>) }

RawDeltas == {<<>>, <<"A">>, <<"B">>}

RawItem(d) == [kind |-> "raw", delta |-> d, msg |-> NoMsg]
MsgItem(m) == [kind |-> "msg", delta |-> <<>>, msg |-> m]
QueueItems == {RawItem(d) : d \in RawDeltas} \cup {MsgItem(m) : m \in ToolMessages}

\* lines 107-113
looks_like_ai_message(chunk) == chunk.kind = "msg"

\* lines 169-175: _serialize_chunk of a str and the `or` chain; an empty
\* string is falsy, so it yields no delta
has_delta(chunk) == chunk.delta # <<>>

\* lines 130-137
build_text_message(message_id, text, state) ==
    AIMessage(message_id, <<StreamTextPart(text, state)>>)

RunOver == r_state \in {"returned", "raised"}

\* the consumer has taken every message the Bridge yielded, so the generator
\* has been resumed
Resumed == a_pos = Len(b_out)

StreamInit ==
    /\ r_state = "idle" /\ r_result = NoText /\ r_puts = <<>>
    /\ task_done = FALSE /\ queue = <<>> /\ agent_timeout \in AgentTimeouts
    /\ b_pc = "idle" /\ b_timeout \in Timeouts /\ b_original = 0
    /\ b_buffer = <<>> /\ b_messageId = 0 /\ b_nextId = 100 /\ b_out = <<>>
    /\ a_pc = "streaming" /\ a_pos = 0 /\ last_text = <<>> /\ sent_role = FALSE
    /\ seen_tool_calls = {} /\ a_frames = <<>>
    /\ requests = <<>> /\ uuid_next = 0 /\ ref = NoRef /\ coerced = <<>>
    /\ final_text = <<>> /\ stream_mode = "sse"
    \* the other components stay as constructed
    /\ w_tool = "search"
    /\ w_ctx = [hasSid |-> FALSE, hasCache |-> FALSE]
    /\ w_sink = "none"
    /\ tool_cache = {}
    /\ w_calls = <<>>
    /\ w_nextId = 1
    /\ s_agents = {"researcher"}
    /\ s_sink = "none"
    /\ s_calls = <<>>
    /\ s_nextId = 1
    /\ nested_queue = <<>>

\* the run puts an item on its output queue (agent.output_queue.put)
run_put(item) ==
    /\ r_state = "running"
    /\ Len(r_puts) < MaxPuts
    /\ queue' = Append(queue, item)
    /\ r_puts' = Append(r_puts, item)
    /\ UNCHANGED <<r_state, r_result, task_done, agent_timeout, bvars, avars>>
    /\ UNCHANGED <<wvars, svars, cvars>>

\* lines 149-153: agent.run returns; the finally clause sets task_done
run_return(result) ==
    /\ r_state = "running"
    /\ r_state' = "returned"
    /\ r_result' = result
    /\ task_done' = TRUE
    /\ UNCHANGED <<r_puts, queue, agent_timeout, bvars, avars>>
    /\ UNCHANGED <<wvars, svars, cvars>>

\* lines 149-153: agent.run raises; the finally clause sets task_done
run_raise ==
    /\ r_state = "running"
    /\ r_state' = "raised"
    /\ task_done' = TRUE
    /\ UNCHANGED <<r_result, r_puts, queue, agent_timeout, bvars, avars>>
    /\ UNCHANGED <<wvars, svars, cvars>>

\* lines 143-158
bridge_start ==
    /\ b_pc = "idle"
    /\ queue' = <<>>
    /\ task_done' = FALSE
    /\ b_original' = agent_timeout
    /\ agent_timeout' = b_timeout
    /\ r_state' = "running"
    /\ b_messageId' = b_nextId
    /\ b_nextId' = b_nextId + 1
    /\ b_buffer' = <<>>
    /\ b_pc' = "loop"
    /\ UNCHANGED <<r_result, r_puts, b_timeout, b_out, avars>>
    /\ UNCHANGED <<wvars, svars, cvars>>

\* lines 161-165: the loop test, then the wait on the queue begins
bridge_loop ==
    /\ b_pc = "loop"
    /\ Resumed
    /\ b_pc' = IF task_done /\ queue = <<>> THEN "join" ELSE "get"
    /\ UNCHANGED <<rvars, b_timeout, b_original, b_buffer, b_messageId, b_nextId, b_out,
                   avars>>
    /\ UNCHANGED <<wvars, svars, cvars>>

\* lines 165-177: queue.get() delivers an item
bridge_get ==
    /\ b_pc = "get"
    /\ queue # <<>>
    /\ LET chunk == Head(queue)
           buffer == b_buffer \o chunk.delta
       IN  /\ queue' = Tail(queue)
           /\ IF looks_like_ai_message(chunk)
              THEN /\ b_out' = Append(b_out, chunk.msg)
                   /\ UNCHANGED b_buffer
              ELSE IF has_delta(chunk)
              THEN /\ b_buffer' = buffer
                   /\ b_out' = Append(b_out, build_text_message(b_messageId, buffer, "streaming"))
              ELSE UNCHANGED <<b_buffer, b_out>>
    /\ b_pc' = "loop"
    /\ UNCHANGED <<r_state, r_result, r_puts, task_done, agent_timeout,
                   b_timeout, b_original, b_messageId, b_nextId, avars>>
    /\ UNCHANGED <<wvars, svars, cvars>>

\* line 165: the 0.5 s timer of wait_for fires while the queue is empty and
\* cancels the pending get; the TimeoutError reaches the Bridge at its next step
bridge_timeout ==
    /\ b_pc = "get"
    /\ queue = <<>>
    /\ b_pc' = "timedout"
    /\ UNCHANGED <<rvars, b_timeout, b_original, b_buffer, b_messageId, b_nextId, b_out,
                   avars>>
    /\ UNCHANGED <<wvars, svars, cvars>>

\* a variant that takes the poll timeout for an overall deadline and ends
bridge_timeout_handled_gives_up ==
    /\ b_pc = "timedout"
    /\ b_pc' = "completed"
    /\ agent_timeout' = b_original
    /\ UNCHANGED <<r_state, r_result, r_puts, task_done, queue,
                   b_timeout, b_original, b_buffer, b_messageId, b_nextId, b_out, avars>>
    /\ UNCHANGED <<wvars, svars, cvars>>

\* lines 178-180: except asyncio.TimeoutError: if run_task.done(): break
bridge_timeout_handled ==
    /\ b_pc = "timedout"
    /\ b_pc' = IF RunOver THEN "join" ELSE "loop"
    /\ UNCHANGED <<rvars, b_timeout, b_original, b_buffer, b_messageId, b_nextId, b_out,
                   avars>>
    /\ UNCHANGED <<wvars, svars, cvars>>

\* a variant of the final text that ignores the value the run returned
final_buffer_ignores_result(result, buffer) == buffer

\* lines 183-184: if result: buffer = str(result)
final_buffer(result, buffer) ==
    IF result.has /\ result.text # <<>> THEN result.text ELSE buffer

\* lines 182-188: await run_task, the final message, the finally clause
bridge_join ==
    /\ b_pc = "join"
    /\ RunOver
    /\ IF r_state = "raised"
       THEN /\ b_pc' = "failed"
            /\ agent_timeout' = b_original
            /\ UNCHANGED <<b_buffer, b_out>>
       ELSE LET buffer == final_buffer(r_result, b_buffer)
            IN  /\ b_buffer' = buffer
                /\ IF buffer # <<>>
                   THEN /\ b_out' = Append(b_out, build_text_message(b_messageId, buffer, "done"))
                        /\ b_pc' = "yield_done"
                        /\ UNCHANGED agent_timeout
                   ELSE /\ b_pc' = "completed"
                        /\ agent_timeout' = b_original
                        /\ UNCHANGED b_out
    /\ UNCHANGED <<r_state, r_result, r_puts, task_done, queue,
                   b_timeout, b_original, b_messageId, b_nextId, avars>>
    /\ UNCHANGED <<wvars, svars, cvars>>

\* lines 186-188: resumed after the final yield, the generator ends
bridge_finish ==
    /\ b_pc = "yield_done"
    /\ Resumed
    /\ b_pc' = "completed"
    /\ agent_timeout' = b_original
    /\ UNCHANGED <<r_state, r_result, r_puts, task_done, queue,
                   b_timeout, b_original, b_buffer, b_messageId, b_nextId, b_out, avars>>
    /\ UNCHANGED <<wvars, svars, cvars>>

\* a variant of the early exit that cancels the background run: the
\* CancelledError ends agent.run and the finally clause sets task_done
bridge_close_cancels_run ==
    /\ b_pc \in {"loop", "get", "timedout", "join", "yield_done"}
    /\ a_pc \in {"streaming", "name_error", "format_error"}
    /\ b_pc' = "closed"
    /\ a_pc' = IF a_pc = "streaming" THEN "closed" ELSE a_pc
    /\ agent_timeout' = b_original
    /\ r_state' = IF r_state = "running" THEN "raised" ELSE r_state
    /\ task_done' = TRUE
    /\ UNCHANGED <<r_result, r_puts, queue,
                   b_timeout, b_original, b_buffer, b_messageId, b_nextId, b_out,
                   a_pos, last_text, sent_role, seen_tool_calls, a_frames>>
    /\ UNCHANGED <<wvars, svars, cvars>>

\* a variant of the early exit that leaves the override in place
bridge_close_keeps_override ==
    /\ b_pc \in {"loop", "get", "timedout", "join", "yield_done"}
    /\ a_pc \in {"streaming", "name_error", "format_error"}
    /\ b_pc' = "closed"
    /\ a_pc' = IF a_pc = "streaming" THEN "closed" ELSE a_pc
    /\ UNCHANGED <<rvars, b_timeout, b_original, b_buffer, b_messageId, b_nextId, b_out,
                   a_pos, last_text, sent_role, seen_tool_calls, a_frames>>
    /\ UNCHANGED <<wvars, svars, cvars>>

\* lines 160-188: the consumer stops reading before the sequence has ended
\* (it is cancelled on a disconnect, or an exception left its loop and the
\* generator is finalised): GeneratorExit or CancelledError is raised at the
\* yield or await the Bridge is suspended at, no except clause matches it, and
\* the finally clause runs.  The background run is not cancelled.
bridge_close ==
    /\ b_pc \in {"loop", "get", "timedout", "join", "yield_done"}
    /\ a_pc \in {"streaming", "name_error", "format_error"}
    /\ b_pc' = "closed"
    /\ a_pc' = IF a_pc = "streaming" THEN "closed" ELSE a_pc
    /\ agent_timeout' = b_original
    /\ UNCHANGED <<r_state, r_result, r_puts, task_done, queue,
                   b_timeout, b_original, b_buffer, b_messageId, b_nextId, b_out,
                   a_pos, last_text, sent_role, seen_tool_calls, a_frames>>
    /\ UNCHANGED <<wvars, svars, cvars>>

(***************************************************************************)
(* The OpenAI-compatible adapter (chat_completions.stream_response)        *)
(***************************************************************************)
IsPrefix(p, t) == Len(p) <= Len(t) /\ SubSeq(t, 1, Len(p)) = p

\* a variant that always slices, also when the text is no extension
text_delta_always_slices(last, text) == SubSeq(text, Len(last) + 1, Len(text))

\* lines 139-141: text[len(last_text):] if text.startswith(last_text) else text
text_delta(last, text) ==
    IF IsPrefix(last, text) THEN SubSeq(text, Len(last) + 1, Len(text)) ELSE text

\* json.dumps without default=: a value that is no JSON value raises TypeError
dumps_raises(val) == val.t = "obj"

\* json.dumps(value, ensure_ascii=False); a string is a sequence of segments
json_dumps(val) ==
    CASE val.t = "none" -> <<"null">>
      [] val.t = "str" -> <<"\"">> \o val.v \o <<"\"">>
      [] OTHER -> <<"{\"error\": \"">> \o val.v \o <<"\"}">>

\* lines 41-53 of _extract_parts: the joined text of the text parts, None
\* when there is none
RECURSIVE JoinPartTexts(_)
JoinPartTexts(parts) ==
    IF parts = <<>> THEN <<>>
    ELSE (IF Head(parts).type = "text" THEN Head(parts).text ELSE <<>>)
         \o JoinPartTexts(Tail(parts))

extract_text_of(event) ==
    IF \E i \in 1..Len(event.parts) : event.parts[i].type = "text"
    THEN SomeText(JoinPartTexts(event.parts))
    ELSE NoText

\* line 50 of _extract_parts: part_type.startswith("tool-")
is_tool_type(type) == type # <<>> /\ type[1] = "tool-"

\* lines 50-51 of _extract_parts
extract_tool_parts(event) ==
    SelectSeq(event.parts, LAMBDA p : p.type = "tool" /\ is_tool_type(p.tool.type))

NoCall == [id |-> 0, name |-> <<>>, arguments |-> <<>>]

\* json.dumps of the keyword arguments of an input payload, in dict order
RECURSIVE dumps_kwargs(_)
dumps_kwargs(kwargs) ==
    IF kwargs = <<>> THEN <<>>
    ELSE <<", \"", Head(kwargs)[1], "\": \"", Head(kwargs)[2], "\"">>
         \o dumps_kwargs(Tail(kwargs))

\* a variant of the arguments that leaves the keyword arguments out
tool_call_arguments_description_only(input) ==
    <<"{\"description\": \"", input.description, "\"">> \o <<"}">>

\* lines 176-191: json.dumps(args, ensure_ascii=False) of the input payload
\* {"description": ..., **kwargs}
tool_call_arguments(input) ==
    <<"{\"description\": \"", input.description, "\"">>
    \o dumps_kwargs(input.kwargs) \o <<"}">>

\* line 168: tool_type.replace("tool-", "", 1) if tool_type else "tool"
tool_name(type) ==
    IF type = <<>> THEN <<"tool">>
    ELSE IF type[1] = "tool-" THEN Tail(type) ELSE type

\* the chunk dictionaries of lines 151-163, 199-211, 235-247 and 259-271;
\* src and ev tell which block wrote the chunk and for which Bridge message
Chunk(src, ev, role, hasContent, content, hasCall, call, finish) ==
    [kind |-> "chunk", src |-> src, ev |-> ev, role |-> role,
     hasContent |-> hasContent, content |-> content,
     hasCall |-> hasCall, call |-> call, finish |-> finish]

\* line 273: "data: [DONE]"
Sentinel ==
    [kind |-> "sentinel", src |-> "finish", ev |-> 0, role |-> FALSE,
     hasContent |-> FALSE, content |-> <<>>, hasCall |-> FALSE, call |-> NoCall,
     finish |-> "null"]

\* lines 138-164: the text block
text_step(st, text, ev) ==
    LET delta_text == text_delta(st.last_text, text)
    IN  IF delta_text # <<>> \/ ~st.sent_role
        THEN [st EXCEPT !.last_text = text, !.sent_role = TRUE,
                        !.frames = Append(@, Chunk("text", ev, ~st.sent_role,
                                                   delta_text # <<>>, delta_text,
                                                   FALSE, NoCall, "null"))]
        ELSE [st EXCEPT !.last_text = text]

NonTerminal == {"input-available", "input-streaming", "approval-requested"}
Terminal == {"output-available", "output-error"}

\* lines 215-217: output = part.get("output"), or part.get("errorText") when
\* that is None
tool_output_of(p) ==
    IF p.hasOutput /\ p.output # NoneVal THEN p.output
    ELSE IF p.hasError THEN StrVal(p.errorText)
    ELSE NoneVal

\* lines 226-230: the content of a terminal tool part
tool_output_content(p) ==
    LET output == tool_output_of(p)
    IN  IF output.t = "str" THEN output.v ELSE json_dumps(output)

\* a variant of the tool_calls block that never sends the role
tool_call_step_without_role(st, p, ev) ==
    IF ~st.failed /\ p.state \in NonTerminal /\ p.toolCallId \notin st.seen
    THEN [st EXCEPT !.seen = @ \cup {p.toolCallId},
                    !.frames = Append(@, Chunk("tool_call", ev, FALSE,
                                               FALSE, <<>>, TRUE,
                                               [id |-> p.toolCallId, name |-> tool_name(p.type),
                                                arguments |-> tool_call_arguments(p.input)],
                                               "null"))]
    ELSE st

\* lines 173-212: the tool_calls delta of a tool part in a non-terminal state
tool_call_step(st, p, ev) ==
    IF ~st.failed /\ p.state \in NonTerminal /\ p.toolCallId \notin st.seen
    THEN [st EXCEPT !.seen = @ \cup {p.toolCallId}, !.sent_role = TRUE,
                    !.frames = Append(@, Chunk("tool_call", ev, ~st.sent_role,
                                               FALSE, <<>>, TRUE,
                                               [id |-> p.toolCallId, name |-> tool_name(p.type),
                                                arguments |-> tool_call_arguments(p.input)],
                                               "null"))]
    ELSE st

\* lines 214-248: the content delta of a tool part in a terminal state; the
\* TypeError of json.dumps at line 229 leaves the loop and the generator
tool_output_step(st, p, ev) ==
    IF ~st.failed /\ p.state \in Terminal
    THEN IF dumps_raises(tool_output_of(p))
         THEN [st EXCEPT !.failed = TRUE]
         ELSE [st EXCEPT !.sent_role = TRUE,
                         !.frames = Append(@, Chunk("tool_output", ev, ~st.sent_role,
                                                    TRUE, tool_output_content(p),
                                                    FALSE, NoCall, "null"))]
    ELSE st

\* lines 166-248: the loop over the tool parts of one message
RECURSIVE tool_steps(_, _, _)
tool_steps(st, parts, ev) ==
    IF parts = <<>> THEN st
    ELSE tool_steps(tool_output_step(tool_call_step(st, Head(parts).tool, ev),
                                     Head(parts).tool, ev),
                    Tail(parts), ev)

\* lines 126-248: the body of the loop for one Bridge message
stream_response_event ==
    /\ a_pc = "streaming"
    /\ a_pos < Len(b_out)
    /\ LET ev == a_pos + 1
           event == b_out[ev]
           text == extract_text_of(event)
           st0 == [last_text |-> last_text, sent_role |-> sent_role,
                   seen |-> seen_tool_calls, frames |-> a_frames, failed |-> FALSE]
           st1 == IF text.has THEN text_step(st0, text.text, ev) ELSE st0
           st2 == tool_steps(st1, extract_tool_parts(event), ev)
       IN  /\ last_text' = st2.last_text
           /\ sent_role' = st2.sent_role
           /\ seen_tool_calls' = st2.seen
           /\ a_frames' = st2.frames
           /\ a_pos' = ev
           /\ a_pc' = IF st2.failed THEN "format_error" ELSE a_pc
    /\ UNCHANGED <<rvars, bvars>>
    /\ UNCHANGED <<wvars, svars, cvars>>

\* a variant of the end of the response that forgets the sentinel
stream_response_finish_without_sentinel ==
    /\ a_pc = "streaming"
    /\ b_pc = "completed"
    /\ Resumed
    /\ a_frames' = Append(a_frames,
                          Chunk("finish", 0, FALSE, FALSE, <<>>, FALSE, NoCall, "stop"))
    /\ a_pc' = "done"
    /\ UNCHANGED <<a_pos, last_text, sent_role, seen_tool_calls, rvars, bvars>>
    /\ UNCHANGED <<wvars, svars, cvars>>

\* lines 259-273: the Bridge's sequence has ended
stream_response_finish ==
    /\ a_pc = "streaming"
    /\ b_pc = "completed"
    /\ Resumed
    /\ a_frames' = a_frames \o
          << Chunk("finish", 0, FALSE, FALSE, <<>>, FALSE, NoCall, "stop"), Sentinel >>
    /\ a_pc' = "done"
    /\ UNCHANGED <<a_pos, last_text, sent_role, seen_tool_calls, rvars, bvars>>
    /\ UNCHANGED <<wvars, svars, cvars>>

\* a variant that closes a broken stream like a complete one
stream_response_abort_finishes ==
    /\ a_pc = "streaming"
    /\ b_pc = "failed"
    /\ a_frames' = a_frames \o
          << Chunk("finish", 0, FALSE, FALSE, <<>>, FALSE, NoCall, "stop"), Sentinel >>
    /\ a_pc' = "aborted"
    /\ UNCHANGED <<a_pos, last_text, sent_role, seen_tool_calls, rvars, bvars>>
    /\ UNCHANGED <<wvars, svars, cvars>>

\* line 126: the exception of the run leaves the Bridge and ends the response
stream_response_abort ==
    /\ a_pc = "streaming"
    /\ b_pc = "failed"
    /\ a_pc' = "aborted"
    /\ UNCHANGED <<a_pos, last_text, sent_role, seen_tool_calls, a_frames, rvars, bvars>>
    /\ UNCHANGED <<wvars, svars, cvars>>

StreamNext ==
    \/ \E item \in QueueItems : run_put(item)
    \/ \E result \in RunResults : run_return(result)
    \/ run_raise
    \/ bridge_start
    \/ bridge_loop
    \/ bridge_get
    \/ bridge_timeout
    \/ bridge_timeout_handled
    \/ bridge_join
    \/ bridge_finish
    \/ stream_response_event
    \/ stream_response_finish
    \/ stream_response_abort

SpecStream == StreamInit /\ [][StreamNext]_vars

(***************************************************************************)
(* chat_completions without stream (openai.py lines 275-297)               *)
(***************************************************************************)
\* the names openai.py defines or imports at module level (lines 1-76)
OpenAINames ==
    {"json", "logging", "os", "time", "uuid", "APIRouter", "HTTPException",
     "StreamingResponse", "BaseModel", "ConfigDict", "Field",
     "create_react_agent", "stream_agent_events", "load_config",
     "router", "config", "logger", "debug_enabled",
     "OpenAIChatMessage", "OpenAIChatCompletionRequest",
     "_extract_parts", "_select_user_message", "_build_system_prompt",
     "chat_completions"}

\* lines 284-296: the chat.completion response
Completion(content) ==
    [kind |-> "completion", role |-> "assistant", content |-> content,
     hasCall |-> FALSE, finish |-> "stop"]

CompletionInit ==
    /\ r_state = "idle" /\ r_result = NoText /\ r_puts = <<>>
    /\ task_done = FALSE /\ queue = <<>> /\ agent_timeout \in AgentTimeouts
    /\ b_pc = "idle" /\ b_timeout \in Timeouts /\ b_original = 0
    /\ b_buffer = <<>> /\ b_messageId = 0 /\ b_nextId = 100 /\ b_out = <<>>
    /\ a_pc = "streaming" /\ a_pos = 0 /\ last_text = <<>> /\ sent_role = FALSE
    /\ seen_tool_calls = {} /\ a_frames = <<>>
    /\ requests = <<>> /\ uuid_next = 0 /\ ref = NoRef /\ coerced = <<>>
    /\ final_text = <<>> /\ stream_mode = "sse"
    \* the other components stay as constructed
    /\ w_tool = "search"
    /\ w_ctx = [hasSid |-> FALSE, hasCache |-> FALSE]
    /\ w_sink = "none"
    /\ tool_cache = {}
    /\ w_calls = <<>>
    /\ w_nextId = 1
    /\ s_agents = {"researcher"}
    /\ s_sink = "none"
    /\ s_calls = <<>>
    /\ s_nextId = 1
    /\ nested_queue = <<>>

\* lines 279-282: the body of the loop for one Bridge message.  Line 280
\* calls _extract_text, a name the module does not bind: the call raises
\* NameError, which leaves the loop and the handler; line 282 is not reached.
chat_completions_event ==
    /\ a_pc = "streaming"
    /\ a_pos < Len(b_out)
    /\ "_extract_text" \notin OpenAINames
    /\ a_pc' = "name_error"
    /\ UNCHANGED <<a_pos, last_text, sent_role, seen_tool_calls, a_frames, rvars, bvars>>
    /\ UNCHANGED <<wvars, svars, cvars>>

\* lines 284-297: the Bridge's sequence has ended, the response is returned
chat_completions_return ==
    /\ a_pc = "streaming"
    /\ b_pc = "completed"
    /\ Resumed
    /\ a_frames' = Append(a_frames, Completion(final_text))
    /\ a_pc' = "returned"
    /\ UNCHANGED <<a_pos, last_text, sent_role, seen_tool_calls, rvars, bvars>>
    /\ UNCHANGED <<wvars, svars, cvars>>

\* line 279: the exception of the run leaves the Bridge and the handler
chat_completions_abort ==
    /\ a_pc = "streaming"
    /\ b_pc = "failed"
    /\ a_pc' = "aborted"
    /\ UNCHANGED <<a_pos, last_text, sent_role, seen_tool_calls, a_frames, rvars, bvars>>
    /\ UNCHANGED <<wvars, svars, cvars>>

CompletionNext ==
    \/ \E item \in QueueItems : run_put(item)
    \/ \E result \in RunResults : run_return(result)
    \/ run_raise
    \/ bridge_start
    \/ bridge_loop
    \/ bridge_get
    \/ bridge_timeout
    \/ bridge_timeout_handled
    \/ bridge_join
    \/ bridge_close
    \/ chat_completions_event
    \/ chat_completions_return
    \/ chat_completions_abort

SpecCompletion == CompletionInit /\ [][CompletionNext]_vars

(***************************************************************************)
(* The native adapter (server/app.py, stream_agent.event_stream)           *)
(***************************************************************************)
\* a tool result that is no JSON value and has no model_dump, to_dict or dict
ObjVal == [t |-> "obj", v |-> <<>>]

\* JSON text, by the value it denotes
JNull == [j |-> "null", s |-> <<>>]
JStr(s) == [j |-> "string", s |-> s]

\* app.py lines 29-39: _json_default falls back to str(value)
json_default(value) == <<"<", "o", "b", "j", ">">>

\* a variant of the serialisation that writes None through str()
native_value_none_as_str(val) ==
    CASE val.t = "none" -> JStr(<<"N", "o", "n", "e">>)
      [] val.t = "str" -> JStr(val.v)
      [] OTHER -> JStr(json_default(val))

\* app.py line 74: json.dumps of a tool result; default= is called for a
\* value json cannot encode
native_value(val) ==
    CASE val.t = "none" -> JNull
      [] val.t = "str" -> JStr(val.v)
      [] OTHER -> JStr(json_default(val))

\* json.loads of the text native_value wrote
native_value_loads(doc) == IF doc.j = "null" THEN NoneVal ELSE StrVal(doc.s)

\* app.py line 74: a keyword argument; the value "obj" is not serialisable
native_arg(v) == IF v = "obj" THEN JStr(json_default(v)) ELSE JStr(<<v>>)
native_arg_loads(doc) == IF Len(doc.s) = 1 THEN doc.s[1] ELSE doc.s

native_kwargs(kwargs) ==
    [i \in 1..Len(kwargs) |-> <<kwargs[i][1], native_arg(kwargs[i][2])>>]
native_kwargs_loads(doc) ==
    [i \in 1..Len(doc) |-> <<doc[i][1], native_arg_loads(doc[i][2])>>]

\* app.py line 74: json.dumps of one part; dict keys keep their order
native_part(p) ==
    IF p.type = "text"
    THEN [type |-> "text", text |-> JStr(p.text), state |-> JStr(p.state), tool |-> NoPart]
    ELSE [type |-> "tool", text |-> JStr(<<>>), state |-> JStr(p.state),
          tool |-> [p.tool EXCEPT !.input.kwargs = native_kwargs(@),
                                  !.output = IF p.tool.hasOutput THEN native_value(@)
                                             ELSE JNull]]

native_part_loads(doc) ==
    IF doc.type = "text"
    THEN [type |-> "text", text |-> doc.text.s, state |-> doc.state.s, tool |-> NoPart]
    ELSE [type |-> "tool", text |-> <<>>, state |-> doc.state.s,
          tool |-> [doc.tool EXCEPT !.input.kwargs = native_kwargs_loads(@),
                                    !.output = native_value_loads(@)]]

\* app.py line 74: payload = json.dumps(event, ensure_ascii=False, default=_json_default)
native_dumps(event) ==
    [id |-> event.id, role |-> event.role,
     parts |-> [i \in 1..Len(event.parts) |-> native_part(event.parts[i])]]

\* json.loads(payload)
native_loads(payload) ==
    [id |-> payload.id, role |-> payload.role,
     parts |-> [i \in 1..Len(payload.parts) |-> native_part_loads(payload.parts[i])]]

\* app.py lines 75-78: f"data: {payload}\n\n" in sse mode, payload otherwise
native_frame(mode, payload) ==
    IF mode = "sse" THEN <<"data: ", payload, "\n\n">> ELSE <<payload>>

\* what a client reads from one frame
parse_frame(mode, frame) ==
    native_loads(IF mode = "sse" THEN frame[2] ELSE frame[1])

StreamModes == {"sse", "raw"}

\* the items of a run behind the native route: deltas, and the lifecycle
\* messages of a tool that returns None or an object
NativeMessages ==
    { AIMessage(71, <<StreamToolPart(
          w_tool_part("price", 7, "input-available", ToolInput, NoneVal, <<>>))>>),
      AIMessage(74, <<StreamToolPart(
          w_tool_part("price", 7, "output-available", ToolInput, NoneVal, <<>>))>>),
      AIMessage(75, <<StreamToolPart(
          w_tool_part("price", 7, "output-available", ToolInput, ObjVal, <<>>))>>) }
NativeItems ==
    {RawItem(d) : d \in {<<"A">>, <<"B">>}} \cup {MsgItem(m) : m \in NativeMessages}

NativeInit ==
    /\ r_state = "idle" /\ r_result = NoText /\ r_puts = <<>>
    /\ task_done = FALSE /\ queue = <<>> /\ agent_timeout \in AgentTimeouts
    /\ b_pc = "idle" /\ b_timeout \in Timeouts /\ b_original = 0
    /\ b_buffer = <<>> /\ b_messageId = 0 /\ b_nextId = 100 /\ b_out = <<>>
    /\ a_pc = "streaming" /\ a_pos = 0 /\ last_text = <<>> /\ sent_role = FALSE
    /\ seen_tool_calls = {} /\ a_frames = <<>>
    /\ requests = <<>> /\ uuid_next = 0 /\ ref = NoRef /\ coerced = <<>>
    /\ final_text = <<>> /\ stream_mode \in StreamModes
    \* the other components stay as constructed
    /\ w_tool = "search"
    /\ w_ctx = [hasSid |-> FALSE, hasCache |-> FALSE]
    /\ w_sink = "none"
    /\ tool_cache = {}
    /\ w_calls = <<>>
    /\ w_nextId = 1
    /\ s_agents = {"researcher"}
    /\ s_sink = "none"
    /\ s_calls = <<>>
    /\ s_nextId = 1
    /\ nested_queue = <<>>

\* app.py lines 73-78: the body of the loop for one Bridge message
event_stream_frame ==
    /\ a_pc = "streaming"
    /\ a_pos < Len(b_out)
    /\ LET event == b_out[a_pos + 1]
           payload == native_dumps(event)
       IN  a_frames' = Append(a_frames, native_frame(stream_mode, payload))
    /\ a_pos' = a_pos + 1
    /\ UNCHANGED <<a_pc, last_text, sent_role, seen_tool_calls, rvars, bvars>>
    /\ UNCHANGED <<wvars, svars, cvars>>

\* app.py line 73: the Bridge's sequence has ended, and so does the response
event_stream_end ==
    /\ a_pc = "streaming"
    /\ b_pc = "completed"
    /\ Resumed
    /\ a_pc' = "done"
    /\ UNCHANGED <<a_pos, last_text, sent_role, seen_tool_calls, a_frames, rvars, bvars>>
    /\ UNCHANGED <<wvars, svars, cvars>>

\* app.py line 73: the exception of the run leaves the Bridge and the response
event_stream_abort ==
    /\ a_pc = "streaming"
    /\ b_pc = "failed"
    /\ a_pc' = "aborted"
    /\ UNCHANGED <<a_pos, last_text, sent_role, seen_tool_calls, a_frames, rvars, bvars>>
    /\ UNCHANGED <<wvars, svars, cvars>>

NativeNext ==
    \/ \E item \in NativeItems : run_put(item)
    \/ \E result \in RunResults : run_return(result)
    \/ run_raise
    \/ bridge_start
    \/ bridge_loop
    \/ bridge_get
    \/ bridge_timeout
    \/ bridge_timeout_handled
    \/ bridge_join
    \/ bridge_finish
    \/ bridge_close
    \/ event_stream_frame
    \/ event_stream_end
    \/ event_stream_abort

SpecNative == NativeInit /\ [][NativeNext]_vars

(***************************************************************************)
(* The OpenAI adapter over the lifecycle messages of two tool calls        *)
(***************************************************************************)
SearchInput == input_payload("search", << <<"q", "x">>, <<"n", "y">> >>)

\* the lifecycle messages of the calls 7 (tool price) and 8 (tool search):
\* every state the adapter tests for, a result that is a string, None or an
\* object, and an exception with and without a message
ToolStreamMessages ==
    { AIMessage(81, <<StreamToolPart(
          w_tool_part("price", 7, "input-available", ToolInput, NoneVal, <<>>))>>),
      AIMessage(82, <<StreamToolPart(
          w_tool_part("price", 7, "input-streaming", ToolInput, NoneVal, <<>>))>>),
      AIMessage(83, <<StreamToolPart(
          w_tool_part("search", 8, "approval-requested", SearchInput, NoneVal, <<>>))>>),
      AIMessage(84, <<StreamToolPart(
          w_tool_part("price", 7, "output-available", ToolInput, StrVal(<<"o", "k">>), <<>>))>>),
      AIMessage(85, <<StreamToolPart(
          w_tool_part("price", 7, "output-available", ToolInput, NoneVal, <<>>))>>),
      AIMessage(86, <<StreamToolPart(
          w_tool_part("price", 7, "output-available", ToolInput, ObjVal, <<>>))>>),
      AIMessage(87, <<StreamToolPart(
          w_tool_part("search", 8, "output-error", SearchInput, NoneVal, <<"E">>))>>),
      AIMessage(88, <<StreamToolPart(
          w_tool_part("search", 8, "output-error", SearchInput, NoneVal, <<>>))>>) }

ToolStreamItems == {MsgItem(m) : m \in ToolStreamMessages}

ToolStreamResults == {NoText, SomeText(<<"Z">>)}

ToolStreamInit ==
    /\ r_state = "idle" /\ r_result = NoText /\ r_puts = <<>>
    /\ task_done = FALSE /\ queue = <<>> /\ agent_timeout \in AgentTimeouts
    /\ b_pc = "idle" /\ b_timeout = 120 /\ b_original = 0
    /\ b_buffer = <<>> /\ b_messageId = 0 /\ b_nextId = 100 /\ b_out = <<>>
    /\ a_pc = "streaming" /\ a_pos = 0 /\ last_text = <<>> /\ sent_role = FALSE
    /\ seen_tool_calls = {} /\ a_frames = <<>>
    /\ requests = <<>> /\ uuid_next = 0 /\ ref = NoRef /\ coerced = <<>>
    /\ final_text = <<>> /\ stream_mode = "sse"
    \* the other components stay as constructed
    /\ w_tool = "search"
    /\ w_ctx = [hasSid |-> FALSE, hasCache |-> FALSE]
    /\ w_sink = "none"
    /\ tool_cache = {}
    /\ w_calls = <<>>
    /\ w_nextId = 1
    /\ s_agents = {"researcher"}
    /\ s_sink = "none"
    /\ s_calls = <<>>
    /\ s_nextId = 1
    /\ nested_queue = <<>>

ToolStreamNext ==
    \/ \E item \in ToolStreamItems : run_put(item)
    \/ \E result \in ToolStreamResults : run_return(result)
    \/ run_raise
    \/ bridge_start
    \/ bridge_loop
    \/ bridge_get
    \/ bridge_timeout
    \/ bridge_timeout_handled
    \/ bridge_join
    \/ bridge_finish
    \/ bridge_close
    \/ stream_response_event
    \/ stream_response_finish
    \/ stream_response_abort

SpecToolStream == ToolStreamInit /\ [][ToolStreamNext]_vars

(***************************************************************************)
(* Views of a finished exchange                                            *)
(***************************************************************************)
RECURSIVE Cumulative(_, _, _)
\* the streaming messages the deltas call for: the k-th carries d1 + ... + dk
Cumulative(deltas, acc, id) ==
    IF deltas = <<>> THEN <<>>
    ELSE <<[id |-> id, role |-> "assistant",
            parts |-> <<[type |-> "text", text |-> acc \o Head(deltas),
                         state |-> "streaming", tool |-> NoPart]>>]>>
         \o Cumulative(Tail(deltas), acc \o Head(deltas), id)

RECURSIVE Concat(_)
Concat(texts) == IF texts = <<>> THEN <<>> ELSE Head(texts) \o Concat(Tail(texts))

PutDeltas == [i \in 1..Len(r_puts) |-> r_puts[i].delta]

\* the text of a Bridge message, as the adapter reads it
EventHasText(m) == \E i \in 1..Len(m.parts) : m.parts[i].type = "text"
EventText(m) == Concat([i \in 1..Len(m.parts) |->
                          IF m.parts[i].type = "text" THEN m.parts[i].text ELSE <<>>])

\* the text of the last text-bearing message among the first n, "" if none
RECURSIVE LastTextOf(_, _)
LastTextOf(out, n) ==
    IF n = 0 THEN <<>>
    ELSE IF EventHasText(out[n]) THEN EventText(out[n])
    ELSE LastTextOf(out, n - 1)

TextChunks == SelectSeq(a_frames, LAMBDA f : f.kind = "chunk" /\ f.src = "text")
SentText == Concat([i \in 1..Len(TextChunks) |-> TextChunks[i].content])

(***************************************************************************)
(* C1 (as stated, for a run whose deltas are all non-empty): when the run  *)
(* has put the raw deltas d1..dn and completed without a superseding       *)
(* result, the Bridge has emitted exactly n streaming messages, the k-th   *)
(* carrying d1 + ... + dk under the one message id, followed by one done   *)
(* message carrying d1 + ... + dn.                                         *)
(***************************************************************************)
ClaimC1 ==
    (/\ b_pc = "completed"
     /\ r_state = "returned"
     /\ ~(r_result.has /\ r_result.text # <<>>)
     /\ r_puts # <<>>
     /\ \A i \in 1..Len(r_puts) : r_puts[i].kind = "raw" /\ r_puts[i].delta # <<>>)
    => b_out = Cumulative(PutDeltas, <<>>, b_messageId)
               \o <<[id |-> b_messageId, role |-> "assistant",
                     parts |-> <<[type |-> "text", text |-> Concat(PutDeltas),
                                  state |-> "done", tool |-> NoPart]>>]>>

(***************************************************************************)
(* C7 (as stated): when the response is complete, the text content deltas  *)
(* concatenated in order are exactly the last cumulative text, also when a *)
(* later text is not an extension of the one before.                       *)
(***************************************************************************)
ClaimC7 ==
    a_pc = "done" => SentText = LastTextOf(b_out, Len(b_out))

(***************************************************************************)
(* C8: for each text-bearing message the content delta is the suffix of    *)
(* the new text beyond last_text when the new text starts with last_text,  *)
(* and the whole new text otherwise; last_text becomes the new text; the   *)
(* text rule writes no chunk with an empty content string.                 *)
(***************************************************************************)
ChunksOf(ev) ==
    SelectSeq(a_frames, LAMBDA f : f.kind = "chunk" /\ f.src = "text" /\ f.ev = ev)

ExpectedDelta(ev) ==
    LET prev == LastTextOf(b_out, ev - 1)
        text == EventText(b_out[ev])
    IN  IF Len(prev) <= Len(text) /\ SubSeq(text, 1, Len(prev)) = prev
        THEN SubSeq(text, Len(prev) + 1, Len(text))
        ELSE text

ClaimC8 ==
    /\ \A ev \in 1..a_pos :
          EventHasText(b_out[ev]) =>
             /\ Len(ChunksOf(ev)) <= 1
             /\ ExpectedDelta(ev) # <<>> =>
                   /\ Len(ChunksOf(ev)) = 1
                   /\ ChunksOf(ev)[1].hasContent
                   /\ ChunksOf(ev)[1].content = ExpectedDelta(ev)
             /\ ExpectedDelta(ev) = <<>> =>
                   \A i \in 1..Len(ChunksOf(ev)) : ~ChunksOf(ev)[i].hasContent
    /\ last_text = LastTextOf(b_out, a_pos)
    /\ \A i \in 1..Len(TextChunks) :
          TextChunks[i].hasContent => TextChunks[i].content # <<>>

\* a text that extends the one before it, and a later one that does not
WitnessC8 ==
    \E e1 \in 1..a_pos : \E e2 \in 1..a_pos :
        /\ EventHasText(b_out[e1]) /\ EventHasText(b_out[e2])
        /\ LastTextOf(b_out, e1 - 1) # <<>>
        /\ IsPrefix(LastTextOf(b_out, e1 - 1), EventText(b_out[e1]))
        /\ Len(EventText(b_out[e1])) > Len(LastTextOf(b_out, e1 - 1))
        /\ ~IsPrefix(LastTextOf(b_out, e2 - 1), EventText(b_out[e2]))

(***************************************************************************)
(* C9 (as stated): a complete response has exactly one chunk with          *)
(* role=assistant, and it is the first chunk that carries content.         *)
(***************************************************************************)
Carries(f) == f.kind = "chunk" /\ (f.hasContent \/ f.hasCall)
RoleIdx == {i \in 1..Len(a_frames) : a_frames[i].role}
CarryIdx == {i \in 1..Len(a_frames) : Carries(a_frames[i])}

ClaimC9 ==
    a_pc = "done" =>
        /\ Cardinality(RoleIdx) = 1
        /\ \A i \in RoleIdx : Carries(a_frames[i]) /\ \A j \in CarryIdx : i <= j

(***************************************************************************)
(* C9 (amended): role=assistant is emitted at most once, on the first      *)
(* chunk of the response; it is emitted exactly once whenever some chunk   *)
(* carries content, and no chunk that carries content precedes it; a       *)
(* response for which the Bridge yields nothing carries no role at all.    *)
(***************************************************************************)
ClaimC9Amended ==
    /\ Cardinality(RoleIdx) <= 1
    /\ \A i \in RoleIdx : i = 1 /\ a_frames[i].src # "finish"
    /\ CarryIdx # {} => (Cardinality(RoleIdx) = 1 /\ \A i \in RoleIdx : \A j \in CarryIdx : i <= j)
    /\ (a_pc = "done" /\ b_out = <<>>) => RoleIdx = {}

\* the role travels on a tool_calls delta and text follows
WitnessC9 ==
    /\ a_pc = "done"
    /\ a_frames[1].role /\ a_frames[1].hasCall
    /\ \E i \in 2..Len(a_frames) : a_frames[i].hasContent

(***************************************************************************)
(* C10: when the Bridge's sequence has ended normally the response ends    *)
(* with one chunk with finish_reason=stop and an empty delta, followed by  *)
(* the [DONE] sentinel; every earlier frame is a chunk with a null         *)
(* finish_reason, and neither is written before the sequence has ended.    *)
(***************************************************************************)
ClaimC10 ==
    /\ a_pc = "done" =>
          LET n == Len(a_frames) IN
          /\ b_pc = "completed"
          /\ n >= 2
          /\ a_frames[n].kind = "sentinel"
          /\ a_frames[n - 1].kind = "chunk" /\ a_frames[n - 1].finish = "stop"
          /\ ~a_frames[n - 1].role /\ ~a_frames[n - 1].hasContent /\ ~a_frames[n - 1].hasCall
          /\ \A i \in 1..(n - 2) : a_frames[i].kind = "chunk" /\ a_frames[i].finish = "null"
    /\ a_pc # "done" =>
          \A i \in 1..Len(a_frames) : a_frames[i].kind = "chunk" /\ a_frames[i].finish = "null"

WitnessC10 ==
    /\ a_pc = "done"
    /\ Len(a_frames) >= 4
    /\ \E i \in 1..Len(a_frames) : a_frames[i].src = "tool_output"

(***************************************************************************)
(* C11: without stream, the adapter reads the Bridge to its end and        *)
(* returns one chat.completion response whose content is the text of the   *)
(* last Bridge message that carried text ("" if none did), with            *)
(* finish_reason stop and no tool-call detail.  Unless the client went     *)
(* away or the run raised, the handler stops only by returning it.         *)
(***************************************************************************)
ClaimC11 ==
    a_pc \notin {"streaming", "closed"} =>
        \/ a_pc = "aborted" /\ b_pc = "failed"
        \/ /\ a_pc = "returned"
           /\ b_pc = "completed"
           /\ a_frames = <<Completion(LastTextOf(b_out, Len(b_out)))>>

JsonNative(m) ==
    \A k \in 1..Len(m.parts) :
        m.parts[k].type = "tool" =>
            /\ m.parts[k].tool.output.t # "obj"
            /\ Serializable(m.parts[k].tool.input.kwargs)

RECURSIVE YieldsFor(_, _, _)
\* the messages the items call for, in queue order: a message as it is, a
\* delta as a streaming message with the text accumulated so far
YieldsFor(items, acc, id) ==
    IF items = <<>> THEN <<>>
    ELSE LET it == Head(items) IN
         IF it.kind = "msg" THEN <<it.msg>> \o YieldsFor(Tail(items), acc, id)
         ELSE IF it.delta = <<>> THEN YieldsFor(Tail(items), acc, id)
         ELSE <<[id |-> id, role |-> "assistant",
                 parts |-> <<[type |-> "text", text |-> acc \o it.delta,
                              state |-> "streaming", tool |-> NoPart]>>]>>
              \o YieldsFor(Tail(items), acc \o it.delta, id)

IsDone(m) == m.parts # <<>> /\ m.parts[1].type = "text" /\ m.parts[1].state = "done"
IsStreaming(m) ==
    m.parts # <<>> /\ m.parts[1].type = "text" /\ m.parts[1].state = "streaming"

DoneIdx == {i \in 1..Len(b_out) : IsDone(b_out[i])}

\* the Bridge's output without its done messages
Streamed == SelectSeq(b_out, LAMBDA m : ~IsDone(m))

\* the text of the last streaming message, "" if there is none
RECURSIVE Accumulated(_, _)
Accumulated(out, n) ==
    IF n = 0 THEN <<>>
    ELSE IF IsStreaming(out[n]) THEN out[n].parts[1].text
    ELSE Accumulated(out, n - 1)

BridgeEnded == b_pc \in {"completed", "failed"}
BridgeExited == b_pc \in {"completed", "failed", "closed"}

(***************************************************************************)
(* C13: if the background run raises, the Bridge does not end normally:    *)
(* the exception leaves it, after it has yielded the messages for every    *)
(* item the run had put on the queue and without any done message.         *)
(***************************************************************************)
ClaimC13 ==
    /\ (r_state = "raised" /\ BridgeEnded) => b_pc = "failed"
    /\ b_pc = "failed" =>
          /\ r_state = "raised"
          /\ DoneIdx = {}
          /\ b_out = YieldsFor(r_puts, <<>>, b_messageId)

(***************************************************************************)
(* C14: when the Bridge starts it records the per-step timeout the agent   *)
(* has, and by whatever path it exits (normal completion, an exception of  *)
(* the run, a poll timeout, the consumer going away) the agent's timeout   *)
(* is that recorded value again.                                           *)
(***************************************************************************)
ClaimC14 ==
    [][ /\ (b_pc = "idle" /\ b_pc' # "idle") => b_original' = agent_timeout
        /\ b_pc # "idle" => b_original' = b_original
        /\ BridgeExited' => agent_timeout' = b_original'
      ]_vars

WitnessC14 ==
    /\ b_pc = "closed"
    /\ b_out # <<>>
    /\ r_state = "running"
    /\ agent_timeout # b_timeout

(***************************************************************************)
(* C18: the Bridge neither reorders nor loses queue items: what it has     *)
(* yielded, done message aside, is always a prefix of the messages the     *)
(* items put so far call for, unchanged and in queue order; and when it    *)
(* has ended, no item is left in the queue and every item was yielded.     *)
(***************************************************************************)
ClaimC18 ==
    /\ LET want == YieldsFor(r_puts, <<>>, b_messageId)
       IN  /\ Len(Streamed) <= Len(want)
           /\ Streamed = SubSeq(want, 1, Len(Streamed))
    /\ BridgeEnded =>
          /\ queue = <<>>
          /\ Streamed = YieldsFor(r_puts, <<>>, b_messageId)

(***************************************************************************)
(* C19 (as stated): after a run that completes normally the Bridge has     *)
(* emitted exactly one done message, last and under the id of the          *)
(* streaming messages, when text was accumulated from deltas, and no done  *)
(* message when none was; the done text is the returned result when one    *)
(* was provided, else the accumulated text.                                *)
(***************************************************************************)
ClaimC19 ==
    b_pc = "completed" =>
        LET acc == Accumulated(b_out, Len(b_out))
            provided == r_result.has /\ r_result.text # <<>>
        IN  IF acc # <<>>
            THEN /\ DoneIdx = {Len(b_out)}
                 /\ b_out[Len(b_out)] =
                       build_text_message(b_messageId,
                                          IF provided THEN r_result.text ELSE acc, "done")
            ELSE DoneIdx = {}

(***************************************************************************)
(* C19 (amended): after a run that completes normally the Bridge has       *)
(* emitted exactly one done message, last and under the id of the          *)
(* streaming messages, when the run returned a non-empty result or text    *)
(* was accumulated from deltas, and no done message otherwise; the done    *)
(* text is the returned result when it is non-empty, else the accumulated  *)
(* text.                                                                   *)
(***************************************************************************)
ClaimC19Amended ==
    b_pc = "completed" =>
        LET acc == Accumulated(b_out, Len(b_out))
            provided == r_result.has /\ r_result.text # <<>>
        IN  IF provided \/ acc # <<>>
            THEN /\ DoneIdx = {Len(b_out)}
                 /\ b_out[Len(b_out)] =
                       build_text_message(b_messageId,
                                          IF provided THEN r_result.text ELSE acc, "done")
                 /\ \A i \in 1..Len(b_out) : IsStreaming(b_out[i]) => b_out[i].id = b_messageId
            ELSE DoneIdx = {}

WitnessC19 ==
    /\ b_pc = "completed"
    /\ Accumulated(b_out, Len(b_out)) = <<"A", "B">>
    /\ r_result = SomeText(<<"Z">>)
    /\ DoneIdx = {Len(b_out)}

(***************************************************************************)
(* Views of a delegation call                                              *)
(***************************************************************************)
KnownCall(c) == c.known /\ c.sink # "none"

\* the message the nested result stands for, as the claims read it: a
\* message (given, or written as JSON text) as it is, any other result as
\* one done text part
CoercedParts(result) ==
    IF result.kind \in {"msg", "json"} THEN result.msg.parts
    ELSE <<[type |-> "text", text |-> result.text, state |-> "done"]>>

TextsOf(parts) ==
    Concat([i \in 1..Len(parts) |-> IF parts[i].type = "text" THEN parts[i].text ELSE <<>>])

HasTextPart(parts) == \E i \in 1..Len(parts) : parts[i].type = "text"

\* t is full without the blanks at its two ends
Trimmed(t, full) ==
    /\ t # <<>> => (t[1] # " " /\ t[Len(t)] # " ")
    /\ \E a \in 0..Len(full) :
          /\ a + Len(t) <= Len(full)
          /\ SubSeq(full, a + 1, a + Len(t)) = t
          /\ \A k \in 1..Len(full) : (k <= a \/ k > a + Len(t)) => full[k] = " "

(***************************************************************************)
(* C15: for a name in the registry, execute emits input-available before   *)
(* the nested run starts and output-available, under the same toolCallId   *)
(* and carrying the whole coerced message, only after the run has          *)
(* completed; nothing else reaches the parent's queue in between, whatever *)
(* the nested run streams.                                                 *)
(***************************************************************************)
ClaimC15 ==
    \A i \in SCallIdx :
        LET c == s_calls[i] IN
        KnownCall(c) =>
            /\ Len(c.trace) >= 2
            /\ c.trace[1].k = "emit"
            /\ c.trace[1].part.state = "input-available"
            /\ c.trace[1].part.toolCallId = c.id
            /\ c.trace[2].k = "run"
            /\ c.status = "running" => Len(c.trace) = 2
            /\ c.status = "returned" =>
                  /\ Len(c.trace) = 3
                  /\ c.trace[3].k = "emit"
                  /\ c.trace[3].part.state = "output-available"
                  /\ c.trace[3].part.toolCallId = c.id
                  /\ c.trace[3].part.hasOutput
                  /\ c.trace[3].part.output.role = "assistant"
                  /\ c.trace[3].part.output.parts = CoercedParts(c.result)

WitnessC15 ==
    \E i \in SCallIdx :
        /\ KnownCall(s_calls[i])
        /\ s_calls[i].status = "returned"
        /\ s_calls[i].result.kind = "json"
        /\ \E k \in 1..Len(nested_queue) : nested_queue[k].agent = s_calls[i].name

(***************************************************************************)
(* C16 (as stated): for a known sub-agent whose nested run completes,      *)
(* execute returns the texts of all text parts of the coerced message      *)
(* joined in order, and the serialisation of the whole message only when   *)
(* the message has no text part.                                           *)
(***************************************************************************)
ClaimC16 ==
    \A i \in SCallIdx :
        LET c == s_calls[i]
            parts == CoercedParts(c.result)
        IN  (c.known /\ c.status = "returned") =>
                IF HasTextPart(parts)
                THEN c.ret.kind = "text" /\ c.ret.text = TextsOf(parts)
                ELSE c.ret.kind = "json" /\ c.ret.msg.parts = parts

(***************************************************************************)
(* C16 (amended): execute returns the joined texts without the blanks at   *)
(* their two ends, and the serialisation of the whole message when nothing *)
(* is left of them (no text part, or only blank text).                     *)
(***************************************************************************)
ClaimC16Amended ==
    \A i \in SCallIdx :
        LET c == s_calls[i]
            parts == CoercedParts(c.result)
        IN  (c.known /\ c.status = "returned") =>
                \/ /\ c.ret.kind = "text"
                   /\ c.ret.text # <<>>
                   /\ Trimmed(c.ret.text, TextsOf(parts))
                \/ /\ c.ret.kind = "json"
                   /\ c.ret.msg.parts = parts
                   /\ Trimmed(<<>>, TextsOf(parts))

WitnessC16 ==
    /\ \E i \in SCallIdx : s_calls[i].known /\ s_calls[i].status = "returned"
                            /\ s_calls[i].ret.text = <<"A", "B">>
    /\ \E i \in SCallIdx : s_calls[i].known /\ s_calls[i].status = "returned"
                            /\ s_calls[i].result.text = <<" ", "A", " ">>

(***************************************************************************)
(* C17: if the nested run raises, execute does not catch it: the call ends *)
(* by the exception, input-available has been emitted, and no terminal     *)
(* event is emitted for its toolCallId.                                    *)
(***************************************************************************)
ClaimC17 ==
    \A i \in SCallIdx :
        LET c == s_calls[i] IN
        /\ (c.known /\ c.status # "running") => c.status = c.outcome
        /\ (KnownCall(c) /\ c.outcome = "raised") =>
              /\ SEvents(c) = <<c.trace[1]>>
              /\ c.trace[1].part.state = "input-available"
              /\ c.trace[1].part.toolCallId = c.id
              /\ \A j \in SCallIdx : \A k \in 1..Len(s_calls[j].trace) :
                    (s_calls[j].trace[k].k = "emit"
                     /\ s_calls[j].trace[k].part.toolCallId = c.id)
                    => s_calls[j].trace[k].part.state = "input-available"

WitnessC17 ==
    \E i \in SCallIdx : KnownCall(s_calls[i]) /\ s_calls[i].status = "raised"
                        /\ Len(s_calls) > i

(***************************************************************************)
(* Both tools in one agent (create_react_agent, react_agent.py 47-103)     *)
(***************************************************************************)
\* uuid4 values never coincide: the delegation tool's ids are drawn from a
\* range of their own
SubAgentIdBase == 50

LifecycleInit ==
    /\ w_tool = "price"
    /\ w_ctx \in [hasSid : {FALSE}, hasCache : BOOLEAN]
    /\ w_sink = "none"
    /\ tool_cache = {}
    /\ w_calls = <<>>
    /\ w_nextId = 1
    /\ s_agents = {"researcher"}
    /\ s_sink = "none"
    /\ s_calls = <<>>
    /\ s_nextId = SubAgentIdBase
    /\ nested_queue = <<>>
    \* the Bridge and the adapters stay idle
    /\ r_state = "idle" /\ r_result = [has |-> FALSE, text |-> <<>>] /\ r_puts = <<>>
    /\ task_done = FALSE /\ queue = <<>> /\ agent_timeout = 30
    /\ b_pc = "idle" /\ b_timeout = 120 /\ b_original = 30 /\ b_buffer = <<>>
    /\ b_messageId = 0 /\ b_nextId = 100 /\ b_out = <<>>
    /\ a_pc = "streaming" /\ a_pos = 0 /\ last_text = <<>> /\ sent_role = FALSE
    /\ seen_tool_calls = {} /\ a_frames = <<>>
    /\ requests = <<>> /\ uuid_next = 0 /\ ref = NoRef /\ coerced = <<>>
    /\ final_text = <<>> /\ stream_mode = "sse"

\* one call shape for each tool is enough to tell the calls apart by their ids
LifecycleArgs == { << <<"q", "x">> >> }
LifecycleOutcomes ==
    { [ok |-> TRUE, val |-> StrVal(<<"o", "k">>), msg |-> <<>>],
      [ok |-> FALSE, val |-> NoneVal, msg |-> <<"E">>] }
LifecycleNames == {"ghost", "researcher"}
LifecycleResults ==
    {[kind |-> "str", text |-> <<"A">>, msg |-> NoMsg]}

LifecycleNext ==
    \/ set_emit
    \/ \E kwargs \in LifecycleArgs : execute_begin(kwargs, FALSE, FALSE)
    \/ \E outcome \in LifecycleOutcomes, f1 \in SinkFail : execute_finish(outcome, f1, FALSE)
    \/ s_set_emit
    \/ \E name \in LifecycleNames : s_execute_begin(name, "hi", "why")
    \/ \E result \in LifecycleResults : s_execute_finish(result)
    \/ s_execute_raise

SpecLifecycle == LifecycleInit /\ [][LifecycleNext]_vars

\* the lifecycle events of the calls of both tools, call by call
WParts(c) == [k \in 1..Len(Events(c)) |-> Events(c)[k].part]
SParts(c) == [k \in 1..Len(SEvents(c)) |-> SEvents(c)[k].part]
CallParts ==
    [i \in 1..Len(w_calls) |-> WParts(w_calls[i])]
    \o [i \in 1..Len(s_calls) |-> SParts(s_calls[i])]
TerminalState(st) == st \in {"output-available", "output-error"}

(***************************************************************************)
(* C20: the lifecycle of a tool call is monotonic: under one toolCallId at *)
(* most one terminal event (output-available or output-error) is emitted,  *)
(* no event follows it, and no other call of either tool emits under that  *)
(* id.                                                                     *)
(***************************************************************************)
ClaimC20 ==
    /\ \A i \in 1..Len(CallParts) :
          LET ps == CallParts[i] IN
          /\ \A k \in 1..Len(ps) : ps[k].toolCallId = ps[1].toolCallId
          /\ \A k \in 1..Len(ps) : TerminalState(ps[k].state) => k = Len(ps)
    /\ \A i, j \in 1..Len(CallParts) :
          (i # j /\ CallParts[i] # <<>> /\ CallParts[j] # <<>>)
          => CallParts[i][1].toolCallId # CallParts[j][1].toolCallId

WitnessC20 ==
    /\ \E i \in 1..Len(w_calls) : w_calls[i].hit /\ Len(Events(w_calls[i])) = 2
    /\ \E i \in 1..Len(s_calls) :
          Len(SEvents(s_calls[i])) = 2 /\ s_calls[i].status = "returned"
    /\ \E i \in 1..Len(s_calls) :
          Len(SEvents(s_calls[i])) = 1 /\ SEvents(s_calls[i])[1].part.state = "output-error"

(***************************************************************************)
(* Views of the adapter's reading of tool parts                            *)
(***************************************************************************)
\* the consumed Bridge messages that hold a tool part of call id in one of
\* the given states
ToolEvents(id, states) ==
    {ev \in 1..a_pos :
        \E i \in 1..Len(b_out[ev].parts) :
            /\ b_out[ev].parts[i].type = "tool"
            /\ b_out[ev].parts[i].tool.toolCallId = id
            /\ b_out[ev].parts[i].tool.state \in states}

CallFrames(id) ==
    {i \in 1..Len(a_frames) : a_frames[i].hasCall /\ a_frames[i].call.id = id}

ToolCallIds == {7, 8}

\* the name and the JSON text of the arguments of the two calls
ExpectedName(id) == IF id = 7 THEN <<"price">> ELSE <<"search">>
ExpectedArguments(id) ==
    IF id = 7
    THEN <<"{\"description\": \"", "price", "\"",
           ", \"", "q", "\": \"", "x", "\"", "}">>
    ELSE <<"{\"description\": \"", "search", "\"",
           ", \"", "q", "\": \"", "x", "\"",
           ", \"", "n", "\": \"", "y", "\"", "}">>

(***************************************************************************)
(* C21: for each toolCallId the adapter emits exactly one tool_calls delta *)
(* per response, at the first tool part seen for that id in a non-terminal *)
(* state (input-available, input-streaming or approval-requested), with    *)
(* the tool name and the JSON-serialized input arguments; later            *)
(* non-terminal parts with the same id emit nothing, and an id seen only   *)
(* in a terminal state gets no tool_calls delta.                           *)
(***************************************************************************)
ClaimC21 ==
    \A id \in ToolCallIds :
        LET first == ToolEvents(id, {"input-available", "input-streaming",
                                     "approval-requested"})
            calls == CallFrames(id)
        IN  /\ first = {} => calls = {}
            /\ first # {} =>
                  /\ Cardinality(calls) = 1
                  /\ \A i \in calls :
                        /\ \A ev \in first : a_frames[i].ev <= ev
                        /\ a_frames[i].ev \in first
                        /\ a_frames[i].call.name = ExpectedName(id)
                        /\ a_frames[i].call.arguments = ExpectedArguments(id)
                        /\ ~a_frames[i].hasContent
                        /\ a_frames[i].finish = "null"

\* call 7 was seen twice in a non-terminal state, in two different states,
\* and call 8 once
WitnessC21 ==
    /\ ToolEvents(7, {"input-available"}) # {}
    /\ ToolEvents(7, {"input-streaming"}) # {}
    /\ ToolEvents(8, {"approval-requested"}) # {}
    /\ a_pos = 3

(***************************************************************************)
(* C22 (as stated): for each tool part that reaches a terminal state the   *)
(* adapter emits one regular content delta, whose content is the           *)
(* stringified output when the state is output-available and the error     *)
(* text when the state is output-error.                                    *)
(***************************************************************************)
OutputChunks(ev) ==
    SelectSeq(a_frames, LAMBDA f : f.kind = "chunk" /\ f.src = "tool_output" /\ f.ev = ev)

\* what the tool of each terminal lifecycle message returned or raised with:
\* "ok", None, an object, Exception("E"), Exception("")
ExpectedContent(m) ==
    CASE m.id = 84 -> <<"o", "k">>
      [] m.id = 85 -> <<"null">>
      [] m.id = 86 -> <<"<", "o", "b", "j", ">">>
      [] m.id = 87 -> <<"E">>
      [] OTHER -> <<>>

ClaimC22 ==
    \A ev \in ToolEvents(7, {"output-available", "output-error"})
              \cup ToolEvents(8, {"output-available", "output-error"}) :
        /\ Len(OutputChunks(ev)) = 1
        /\ OutputChunks(ev)[1].hasContent
        /\ ~OutputChunks(ev)[1].hasCall
        /\ OutputChunks(ev)[1].content = ExpectedContent(b_out[ev])

(***************************************************************************)
(* Two requests served concurrently (chat_completions lines 104-126,       *)
(* create_react_agent lines 86-104, stream_agent_events)                   *)
(***************************************************************************)
Requests == {1, 2}

\* the text the reasoning loop of request r streams
DeltaOf(r) == IF r = 1 THEN <<"a">> ELSE <<"b">>

\* a request before its handler has built anything; emit = 0: no closure yet
NewRequest ==
    [pc |-> "new", emit |-> 0, run |-> "idle", queue |-> <<>>, buffer |-> <<>>,
     message_id |-> 0, out |-> <<>>, puts |-> 0, ids |-> {}]

RequestsInit ==
    /\ requests = [r \in Requests |-> NewRequest]
    /\ uuid_next = 201
    /\ ref = NoRef /\ coerced = <<>>
    \* the single-request components stay as constructed
    /\ final_text = <<>> /\ stream_mode = "sse"
    /\ w_tool = "search"
    /\ w_ctx = [hasSid |-> FALSE, hasCache |-> FALSE]
    /\ w_sink = "none"
    /\ tool_cache = {}
    /\ w_calls = <<>>
    /\ w_nextId = 1
    /\ s_agents = {"researcher"}
    /\ s_sink = "none"
    /\ s_calls = <<>>
    /\ s_nextId = 1
    /\ nested_queue = <<>>
    /\ r_state = "idle" /\ r_result = NoText /\ r_puts = <<>>
    /\ task_done = FALSE /\ queue = <<>> /\ agent_timeout = 30
    /\ b_pc = "idle" /\ b_timeout = 120 /\ b_original = 0
    /\ b_buffer = <<>> /\ b_messageId = 0 /\ b_nextId = 100 /\ b_out = <<>>
    /\ a_pc = "streaming" /\ a_pos = 0 /\ last_text = <<>> /\ sent_role = FALSE
    /\ seen_tool_calls = {} /\ a_frames = <<>>

\* a variant of create_react_agent whose emit puts on the queue of one agent
\* kept at module level (the agent of the first request)
request_create_agent_shared(r) ==
    /\ requests[r].pc = "new"
    /\ requests' = [requests EXCEPT ![r].pc = "built", ![r].emit = 1]
    /\ UNCHANGED uuid_next
    /\ UNCHANGED <<wvars, svars, rvars, bvars, avars, final_text, stream_mode, ref, coerced>>

\* openai.py lines 104-114, react_agent.py lines 86-103: the handler builds
\* its own agent; emit is a closure over that agent and puts on its queue
request_create_agent(r) ==
    /\ requests[r].pc = "new"
    /\ requests' = [requests EXCEPT ![r].pc = "built", ![r].emit = r]
    /\ UNCHANGED uuid_next
    /\ UNCHANGED <<wvars, svars, rvars, bvars, avars, final_text, stream_mode, ref, coerced>>

\* react_agent.py lines 143-158: the Bridge of request r starts the run
request_bridge_start(r) ==
    /\ requests[r].pc = "built"
    /\ requests' = [requests EXCEPT ![r].pc = "streaming", ![r].run = "running",
                                    ![r].message_id = uuid_next, ![r].buffer = <<>>,
                                    ![r].ids = @ \cup {uuid_next}]
    /\ uuid_next' = uuid_next + 1
    /\ UNCHANGED <<wvars, svars, rvars, bvars, avars, final_text, stream_mode, ref, coerced>>

\* the reasoning loop of request r puts a delta on its agent's output queue
request_run_put(r) ==
    /\ requests[r].run = "running"
    /\ requests[r].puts < MaxRequestPuts
    /\ requests' = [requests EXCEPT ![r].queue = Append(@, RawItem(DeltaOf(r))),
                                    ![r].puts = @ + 1]
    /\ UNCHANGED uuid_next
    /\ UNCHANGED <<wvars, svars, rvars, bvars, avars, final_text, stream_mode, ref, coerced>>

\* tool_call_wrapper.py lines 48-63 and 106-110: a wrapper of request r emits
\* a lifecycle message through the emit it was given (react_agent.py 96-100)
request_tool_emit(r) ==
    /\ requests[r].run = "running"
    /\ requests[r].puts < MaxRequestPuts
    /\ requests[r].emit # 0
    /\ LET to == requests[r].emit
           m == AIMessage(uuid_next + 1, <<StreamToolPart(
                    w_tool_part("price", uuid_next, "input-available", ToolInput,
                                NoneVal, <<>>))>>)
       IN  requests' = [q \in Requests |->
                          [requests[q] EXCEPT
                              !.queue = IF q = to THEN Append(@, MsgItem(m)) ELSE @,
                              !.puts = IF q = r THEN @ + 1 ELSE @,
                              !.ids = IF q = r THEN @ \cup {uuid_next, uuid_next + 1}
                                      ELSE @]]
    /\ uuid_next' = uuid_next + 2
    /\ UNCHANGED <<wvars, svars, rvars, bvars, avars, final_text, stream_mode, ref, coerced>>

\* react_agent.py lines 149-153: the run of request r is over
request_run_over(r) ==
    /\ requests[r].run = "running"
    /\ requests' = [requests EXCEPT ![r].run = "over"]
    /\ UNCHANGED uuid_next
    /\ UNCHANGED <<wvars, svars, rvars, bvars, avars, final_text, stream_mode, ref, coerced>>

\* react_agent.py lines 165-177: the Bridge of request r takes an item
request_bridge_get(r) ==
    /\ requests[r].pc = "streaming"
    /\ requests[r].queue # <<>>
    /\ LET chunk == Head(requests[r].queue)
           buffer == requests[r].buffer \o chunk.delta
       IN  requests' =
             [requests EXCEPT
                ![r].queue = Tail(@),
                ![r].buffer = IF looks_like_ai_message(chunk) THEN @ ELSE buffer,
                ![r].out = IF looks_like_ai_message(chunk) THEN Append(@, chunk.msg)
                           ELSE IF has_delta(chunk)
                           THEN Append(@, build_text_message(requests[r].message_id,
                                                             buffer, "streaming"))
                           ELSE @]
    /\ UNCHANGED uuid_next
    /\ UNCHANGED <<wvars, svars, rvars, bvars, avars, final_text, stream_mode, ref, coerced>>

\* react_agent.py lines 162-163 and 178-186: the Bridge of request r ends
request_bridge_end(r) ==
    /\ requests[r].pc = "streaming"
    /\ requests[r].run = "over"
    /\ requests' =
          [requests EXCEPT
             ![r].pc = "ended",
             ![r].out = IF requests[r].buffer # <<>>
                        THEN Append(@, build_text_message(requests[r].message_id,
                                                          requests[r].buffer, "done"))
                        ELSE @]
    /\ UNCHANGED uuid_next
    /\ UNCHANGED <<wvars, svars, rvars, bvars, avars, final_text, stream_mode, ref, coerced>>

RequestsNext ==
    \/ \E r \in Requests : request_create_agent(r)
    \/ \E r \in Requests : request_bridge_start(r)
    \/ \E r \in Requests : request_run_put(r)
    \/ \E r \in Requests : request_tool_emit(r)
    \/ \E r \in Requests : request_run_over(r)
    \/ \E r \in Requests : request_bridge_get(r)
    \/ \E r \in Requests : request_bridge_end(r)

SpecRequests == RequestsInit /\ [][RequestsNext]_vars

\* the texts made of the deltas of request r only
RECURSIVE OwnText(_, _)
OwnText(t, r) ==
    t = <<>> \/ (Head(t) = DeltaOf(r)[1] /\ OwnText(Tail(t), r))

(***************************************************************************)
(* C23: no cross-request agent state.  Each request builds its own agent,  *)
(* wrappers and emit, whose lifecycle events are put only on that          *)
(* request's own queue: for two requests served concurrently, in any       *)
(* interleaving, every message in the stream of a request was produced by  *)
(* that request (its message ids and tool-call ids were drawn by it, its   *)
(* text holds only its own deltas), and the ids of the two are disjoint.   *)
(***************************************************************************)
ClaimC23 ==
    /\ \A r \in Requests :
          \A i \in 1..Len(requests[r].out) :
              LET m == requests[r].out[i]
              IN  /\ m.id \in requests[r].ids
                  /\ \A q \in Requests \ {r} : m.id \notin requests[q].ids
                  /\ \A j \in 1..Len(m.parts) :
                        IF m.parts[j].type = "text"
                        THEN /\ m.id = requests[r].message_id
                             /\ OwnText(m.parts[j].text, r)
                        ELSE m.parts[j].tool.toolCallId \in requests[r].ids
    /\ \A r \in Requests : \A q \in Requests \ {r} :
          /\ requests[r].ids \cap requests[q].ids = {}
          /\ \A i \in 1..Len(requests[r].queue) :
                requests[r].queue[i].kind = "msg" =>
                    requests[r].queue[i].msg.id \in requests[r].ids

\* both requests have ended, each having streamed a tool event and text
WitnessC23 ==
    \A r \in Requests :
        /\ requests[r].pc = "ended"
        /\ \E i \in 1..Len(requests[r].out) : requests[r].out[i].parts[1].type = "tool"
        /\ \E i \in 1..Len(requests[r].out) : requests[r].out[i].parts[1].type = "text"

(***************************************************************************)
(* The Bridge under a fair scheduler (stream_agent_events lines 149-188)   *)
(***************************************************************************)
TerminationItems ==
    { RawItem(<<"A">>),
      MsgItem(AIMessage(71, <<StreamToolPart(
          w_tool_part("price", 7, "input-available", ToolInput, NoneVal, <<>>))>>)) }

TerminationInit ==
    /\ r_state = "idle" /\ r_result = NoText /\ r_puts = <<>>
    /\ task_done = FALSE /\ queue = <<>> /\ agent_timeout \in AgentTimeouts
    /\ b_pc = "idle" /\ b_timeout \in Timeouts /\ b_original = 0
    /\ b_buffer = <<>> /\ b_messageId = 0 /\ b_nextId = 100 /\ b_out = <<>>
    /\ a_pc = "streaming" /\ a_pos = 0 /\ last_text = <<>> /\ sent_role = FALSE
    /\ seen_tool_calls = {} /\ a_frames = <<>>
    /\ requests = <<>> /\ uuid_next = 0 /\ ref = NoRef /\ coerced = <<>>
    /\ final_text = <<>> /\ stream_mode = "sse"
    \* the other components stay as constructed
    /\ w_tool = "search"
    /\ w_ctx = [hasSid |-> FALSE, hasCache |-> FALSE]
    /\ w_sink = "none"
    /\ tool_cache = {}
    /\ w_calls = <<>>
    /\ w_nextId = 1
    /\ s_agents = {"researcher"}
    /\ s_sink = "none"
    /\ s_calls = <<>>
    /\ s_nextId = 1
    /\ nested_queue = <<>>

TerminationNext ==
    \/ \E item \in TerminationItems : run_put(item)
    \/ \E result \in RunResults : run_return(result)
    \/ run_raise
    \/ bridge_start
    \/ bridge_loop
    \/ bridge_get
    \/ bridge_timeout
    \/ bridge_timeout_handled
    \/ bridge_join
    \/ bridge_finish
    \/ bridge_close
    \/ event_stream_frame
    \/ event_stream_end
    \/ event_stream_abort

\* the event loop keeps running the Bridge and a consumer that reads: every
\* step of theirs that stays enabled is taken.  Nothing is assumed of the
\* run (it may never return) nor of the consumer going away.
TerminationFairness ==
    /\ WF_vars(bridge_start)
    /\ WF_vars(bridge_loop)
    /\ WF_vars(bridge_get)
    /\ WF_vars(bridge_timeout)
    /\ WF_vars(bridge_timeout_handled)
    /\ WF_vars(bridge_join)
    /\ WF_vars(bridge_finish)
    /\ WF_vars(event_stream_frame)

SpecTermination == TerminationInit /\ [][TerminationNext]_vars /\ TerminationFairness

(***************************************************************************)
(* C24: once the background run has returned or raised and the queue has   *)
(* been drained, the Bridge eventually ends (under fair scheduling of the  *)
(* poll loop); while the run has not completed the Bridge never ends on    *)
(* its own, so for a run that never terminates it polls forever: there is  *)
(* no overall deadline.                                                    *)
(***************************************************************************)
ClaimC24 ==
    /\ [](b_pc \in {"completed", "failed"} => r_state \in {"returned", "raised"})
    /\ (r_state \in {"returned", "raised"} /\ queue = <<>>)
          ~> (b_pc \in {"completed", "failed", "closed"})

\* the Bridge has ended by itself after the run put MaxPuts items, all of
\* them delivered and read
WitnessC24 ==
    /\ b_pc = "completed"
    /\ queue = <<>>
    /\ Len(r_puts) = MaxPuts
    /\ a_pos = Len(b_out)

(***************************************************************************)
(* C25: no cancellation.  When the consumer stops reading (the Bridge is   *)
(* closed or cancelled mid-stream) the background run is not cancelled:    *)
(* the step that closes the Bridge leaves the run, its queue and its       *)
(* completion flag as they are, the run stops running only by a step of    *)
(* its own, and after the close it can still go on and complete.           *)
(***************************************************************************)
ClaimC25 ==
    /\ [][(b_pc # "closed" /\ b_pc' = "closed") =>
              UNCHANGED <<r_state, r_result, r_puts, task_done, queue>>]_vars
    /\ [][(r_state = "running" /\ r_state' # "running") =>
              (r_state' \in {"returned", "raised"} /\ UNCHANGED <<b_pc, a_pc>>)]_vars
    /\ []((b_pc = "closed" /\ r_state = "running") =>
             (ENABLED run_raise /\ ENABLED run_return(NoText)))

\* the consumer went away while the run was running and had output pending
WitnessC25 ==
    /\ b_pc = "closed"
    /\ a_pc = "closed"
    /\ r_state = "running"
    /\ queue # <<>>
    /\ b_out # <<>>

(***************************************************************************)
(* C26 (as stated): the timeout override is in force for the duration of   *)
(* the run: at every moment between the start of the background run and    *)
(* its completion, agent._default_timeout equals the timeout requested for *)
(* this Bridge invocation.                                                 *)
(***************************************************************************)
ClaimC26 ==
    r_state = "running" => agent_timeout = b_timeout

(***************************************************************************)
(* C27: in OpenAI streaming mode errors are not isolated per event.  When  *)
(* formatting one event fails (a tool output that cannot be                *)
(* JSON-serialized) or the Bridge raises, the response ends at that point: *)
(* nothing is written for the failing part, no later event is rendered,    *)
(* and no error frame, finish_reason=stop chunk or sentinel is emitted.    *)
(***************************************************************************)
Broken == a_pc \in {"format_error", "aborted"}

ClaimC27 ==
    /\ [](Broken =>
            /\ \A i \in 1..Len(a_frames) :
                  /\ a_frames[i].kind = "chunk"
                  /\ a_frames[i].finish = "null"
                  /\ a_frames[i].src \in {"text", "tool_call", "tool_output"}
                  /\ a_frames[i].ev <= a_pos
            /\ a_pc = "format_error" => OutputChunks(a_pos) = <<>>
            /\ a_pc = "aborted" => r_state = "raised")
    /\ [](\A ev \in 1..a_pos : b_out[ev].id = 86 => (a_pc = "format_error" /\ ev = a_pos))
    /\ [][Broken => (a_frames' = a_frames /\ a_pos' = a_pos /\ a_pc' = a_pc)]_vars

\* the output of call 7 could not be serialized after a tool_calls delta
\* had been sent, and the run has put a later message that is never rendered
WitnessC27 ==
    /\ a_pc = "format_error"
    /\ a_frames # <<>>
    /\ queue # <<>>
    /\ b_pc = "closed"

(***************************************************************************)
(* One wrapper with a cache (tool_call_wrapper.py lines 77-123)            *)
(***************************************************************************)
\* the same mapping in both orders, with JSON values and with a value that
\* json.dumps cannot encode, and a call that brings its own session_id
CacheArgs ==
    { << <<"n", "y">>, <<"q", "x">> >>,
      << <<"q", "x">>, <<"n", "y">> >>,
      << <<"n", "y">>, <<"q", "obj">> >>,
      << <<"q", "obj">>, <<"n", "y">> >>,
      << <<"q", "x">>, <<"n", "y">>, <<"session_id", "own">> >> }

CacheInit ==
    /\ w_tool = "price"
    /\ w_ctx \in [hasSid : BOOLEAN, hasCache : {TRUE}]
    /\ w_sink = "none"
    /\ tool_cache = {}
    /\ w_calls = <<>>
    /\ w_nextId = 1
    \* the other components stay as constructed
    /\ s_agents = {"researcher"}
    /\ s_sink = "none"
    /\ s_calls = <<>>
    /\ s_nextId = 1
    /\ nested_queue = <<>>
    /\ r_state = "idle" /\ r_result = [has |-> FALSE, text |-> <<>>] /\ r_puts = <<>>
    /\ task_done = FALSE /\ queue = <<>> /\ agent_timeout = 30
    /\ b_pc = "idle" /\ b_timeout = 120 /\ b_original = 30 /\ b_buffer = <<>>
    /\ b_messageId = 0 /\ b_nextId = 100 /\ b_out = <<>>
    /\ a_pc = "streaming" /\ a_pos = 0 /\ last_text = <<>> /\ sent_role = FALSE
    /\ seen_tool_calls = {} /\ a_frames = <<>>
    /\ requests = <<>> /\ uuid_next = 0 /\ ref = NoRef /\ coerced = <<>>
    /\ final_text = <<>> /\ stream_mode = "sse"

CacheNext ==
    \/ set_emit
    \/ \E kwargs \in CacheArgs, f1 \in SinkFail, f2 \in SinkFail :
          execute_begin(kwargs, f1, f2)
    \/ \E outcome \in ToolOutcomes, f1 \in SinkFail, f2 \in SinkFail :
          execute_finish(outcome, f1, f2)

SpecCache == CacheInit /\ [][CacheNext]_vars

\* the named arguments of a call as a mapping
Mapping(kwargs) == {kwargs[i] : i \in 1..Len(kwargs)}

(***************************************************************************)
(* C28 (as stated): cache lookup is independent of argument order.  Two    *)
(* calls to the same wrapped tool in the same cache scope whose named      *)
(* arguments are equal as a mapping but supplied in a different order use  *)
(* the same cache key, so the second call, made after the first one        *)
(* succeeded, is a cache hit and does not invoke the tool.                 *)
(***************************************************************************)
ClaimC28 ==
    \A i \in CallIdx : \A j \in CallIdx :
        (/\ i < j
         /\ w_calls[i].tool = w_calls[j].tool
         /\ Mapping(w_calls[i].args) = Mapping(w_calls[j].args)
         /\ w_calls[i].args # w_calls[j].args)
        => /\ w_calls[i].key = w_calls[j].key
           /\ (ToolSucceeded(w_calls[i]) /\ ~w_calls[i].sinkFailed)
                 => (w_calls[j].hit /\ Invocations(w_calls[j]) = 0)

(***************************************************************************)
(* C29 (as stated): cache soundness.  Any value the wrapper returns from   *)
(* the cache is a value that an earlier successful call stored in the same *)
(* cache for a tool of the same name and the same arguments, the injected  *)
(* session id aside (args holds what the caller supplied, before the       *)
(* injection).                                                             *)
(***************************************************************************)
ClaimC29 ==
    \A j \in CallIdx :
        w_calls[j].hit =>
            \E i \in 1..(j - 1) :
                /\ ToolSucceeded(w_calls[i])
                /\ w_calls[i].tool = w_calls[j].tool
                /\ Mapping(w_calls[i].args) = Mapping(w_calls[j].args)
                /\ w_calls[j].status = "returned" => w_calls[j].ret = w_calls[i].outcome.val

(***************************************************************************)
(* Views of what a call handed to its tool                                 *)
(***************************************************************************)
Invoked(c) == Invocations(c) = 1

\* the tool received the session id of the context, which the caller had
\* not supplied
ReceivedContextSid(c) ==
    /\ "session_id" \notin Keys(c.args)
    /\ \E k \in 1..Len(c.passed) : c.passed[k] = <<"session_id", "ctx-sid">>

\* the arguments of the caller reached the tool as they were, in order
PassedThrough(c) ==
    /\ Len(c.passed) >= Len(c.args)
    /\ SubSeq(c.passed, 1, Len(c.args)) = c.args
    /\ \A k \in (Len(c.args) + 1)..Len(c.passed) : c.passed[k][1] = "session_id"
    /\ Len(c.passed) <= Len(c.args) + 1

\* execute of "price" declares session_id, that of "search" declares
\* neither it nor **kwargs, and that of "opaque" cannot be inspected
Declares(tool) == tool = "price"
Uninspectable(tool) == tool = "opaque"

(***************************************************************************)
(* C30 (as stated): the wrapper passes the context's session id to the     *)
(* wrapped tool exactly when the context carries one, the caller did not   *)
(* supply a session_id, and the tool's execute declares that it accepts    *)
(* it; a caller-supplied session_id is never overwritten, a tool that does *)
(* not accept it never receives it, and all other arguments are passed     *)
(* through unchanged.                                                      *)
(***************************************************************************)
ClaimC30 ==
    \A i \in CallIdx :
        Invoked(w_calls[i]) =>
            /\ ReceivedContextSid(w_calls[i]) <=>
                  (/\ w_ctx.hasSid
                   /\ "session_id" \notin Keys(w_calls[i].args)
                   /\ Declares(w_calls[i].tool))
            /\ PassedThrough(w_calls[i])

(***************************************************************************)
(* C30 (amended): the wrapper passes the context's session id to the       *)
(* wrapped tool exactly when the context carries one, the caller did not   *)
(* supply a session_id, and the tool's execute either declares that it     *)
(* accepts it or has a signature that cannot be inspected; a               *)
(* caller-supplied session_id is never overwritten, a tool whose signature *)
(* shows that it does not accept it never receives it, and all other       *)
(* arguments are passed through unchanged.                                 *)
(***************************************************************************)
ClaimC30Amended ==
    \A i \in CallIdx :
        Invoked(w_calls[i]) =>
            /\ ReceivedContextSid(w_calls[i]) <=>
                  (/\ w_ctx.hasSid
                   /\ "session_id" \notin Keys(w_calls[i].args)
                   /\ (Declares(w_calls[i].tool) \/ Uninspectable(w_calls[i].tool)))
            /\ PassedThrough(w_calls[i])

\* a tool whose signature cannot be inspected received the context's session
\* id, and a later call kept the session id its caller supplied
WitnessC30 ==
    /\ Len(w_calls) = 2
    /\ w_ctx.hasSid
    /\ Uninspectable(w_tool)
    /\ Invoked(w_calls[1]) /\ ReceivedContextSid(w_calls[1])
    /\ Invoked(w_calls[2])
    /\ \E k \in 1..Len(w_calls[2].passed) : w_calls[2].passed[k] = <<"session_id", "own">>

(***************************************************************************)
(* Two agents built alike, one of them not yet given its emit              *)
(*                                                                         *)
(* create_react_agent builds the wrappers and the delegation tool with     *)
(* emit = None (react_agent.py lines 55-63) and attaches emit afterwards   *)
(* (lines 99-103).  The tools of w_calls and s_calls are called before     *)
(* that; ref holds a wrapper and a delegation tool with the same tool,     *)
(* context content, registry and uuid draws, whose emit is attached and    *)
(* accepts every message.  Both receive the same calls, and the tool and   *)
(* the nested run behave the same for both.                                *)
(***************************************************************************)
SilentArgs ==
    { << <<"q", "x">> >>,
      << <<"q", "x">>, <<"session_id", "own">> >> }

\* the tool returns a value, returns None or raises
SilentOutcomes ==
    { [ok |-> TRUE, val |-> StrVal(<<"o", "k">>), msg |-> <<>>],
      [ok |-> TRUE, val |-> NoneVal, msg |-> <<>>],
      [ok |-> FALSE, val |-> NoneVal, msg |-> <<"E">>] }

SilentNames == {"ghost", "researcher"}

SilentResults ==
    { [kind |-> "str", text |-> <<"A">>, msg |-> NoMsg],
      [kind |-> "str", text |-> <<>>, msg |-> NoMsg],
      [kind |-> "msg", text |-> <<>>, msg |-> AIMessage(91, <<OtherPart>>)] }

RefInFlight == ref.calls # <<>> /\ ref.calls[Len(ref.calls)].status = "invoking"
RefSInFlight == ref.scalls # <<>> /\ ref.scalls[Len(ref.scalls)].status = "running"

SilentInit ==
    /\ w_tool = "price"
    /\ w_ctx \in [hasSid : {TRUE}, hasCache : BOOLEAN]
    /\ w_sink = "none"
    /\ tool_cache = {}
    /\ w_calls = <<>>
    /\ w_nextId = 1
    /\ s_agents = {"researcher"}
    /\ s_sink = "none"
    /\ s_calls = <<>>
    /\ s_nextId = 1
    /\ nested_queue = <<>>
    /\ ref = NoRef /\ coerced = <<>>
    \* the other components stay as constructed
    /\ r_state = "idle" /\ r_result = NoText /\ r_puts = <<>>
    /\ task_done = FALSE /\ queue = <<>> /\ agent_timeout = 30
    /\ b_pc = "idle" /\ b_timeout = 120 /\ b_original = 30 /\ b_buffer = <<>>
    /\ b_messageId = 0 /\ b_nextId = 100 /\ b_out = <<>>
    /\ a_pc = "streaming" /\ a_pos = 0 /\ last_text = <<>> /\ sent_role = FALSE
    /\ seen_tool_calls = {} /\ a_frames = <<>>
    /\ requests = <<>> /\ uuid_next = 0
    /\ final_text = <<>> /\ stream_mode = "sse"

\* ToolCallWrapper.execute, lines 65-112, entered on both wrappers
silent_execute_begin(kwargs) ==
    /\ Len(w_calls) < MaxCalls
    /\ ~InFlight /\ ~RefInFlight /\ ~SInFlight /\ ~RefSInFlight
    /\ w_calls' = Append(w_calls,
                         execute_entry(w_tool, w_ctx, w_sink, tool_cache, w_nextId,
                                       kwargs, FALSE, FALSE))
    /\ ref' = [ref EXCEPT !.calls =
                  Append(@, execute_entry(w_tool, w_ctx, "attached", ref.cache, w_nextId,
                                          kwargs, FALSE, FALSE))]
    /\ w_nextId' = w_nextId + 1
    /\ UNCHANGED <<w_tool, w_ctx, w_sink, tool_cache>>
    /\ UNCHANGED <<svars, rvars, bvars, avars, final_text, stream_mode, requests, uuid_next, coerced>>

\* ToolCallWrapper.execute, lines 112-131: the wrapped tool returns or raises,
\* the same for every wrapper that invoked it
silent_execute_finish(outcome) ==
    /\ InFlight \/ RefInFlight
    /\ LET n == Len(w_calls)
           m == Len(ref.calls)
       IN  /\ w_calls' = IF InFlight
                         THEN [w_calls EXCEPT ![n] =
                                  execute_exit(w_calls[n], w_sink, outcome, FALSE, FALSE)]
                         ELSE w_calls
           /\ tool_cache' = IF InFlight
                            THEN execute_store(w_ctx, tool_cache, w_calls[n], outcome, FALSE)
                            ELSE tool_cache
           /\ ref' = IF RefInFlight
                     THEN [ref EXCEPT
                             !.calls[m] = execute_exit(ref.calls[m], "attached", outcome,
                                                       FALSE, FALSE),
                             !.cache = execute_store(w_ctx, ref.cache, ref.calls[m],
                                                     outcome, FALSE)]
                     ELSE ref
    /\ UNCHANGED <<w_tool, w_ctx, w_sink, w_nextId>>
    /\ UNCHANGED <<svars, rvars, bvars, avars, final_text, stream_mode, requests, uuid_next, coerced>>

\* SubAgentTool.execute, lines 132-158, entered on both delegation tools
silent_s_execute_begin(name, message, description) ==
    /\ Len(s_calls) < MaxSubCalls
    /\ ~InFlight /\ ~RefInFlight /\ ~SInFlight /\ ~RefSInFlight
    /\ s_calls' = Append(s_calls,
                         s_execute_entry(s_agents, s_sink, s_nextId,
                                         name, message, description))
    /\ ref' = [ref EXCEPT !.scalls =
                  Append(@, s_execute_entry(s_agents, "queue", s_nextId,
                                            name, message, description))]
    /\ s_nextId' = s_nextId + 1
    /\ UNCHANGED <<s_agents, s_sink, nested_queue>>
    /\ UNCHANGED <<wvars, rvars, bvars, avars, final_text, stream_mode, requests, uuid_next, coerced>>

\* SubAgentTool.execute, lines 158-171: the nested run returns, the same for
\* every delegation tool that awaits it
silent_s_execute_finish(result) ==
    /\ SInFlight \/ RefSInFlight
    /\ LET n == Len(s_calls)
           m == Len(ref.scalls)
       IN  /\ s_calls' = IF SInFlight
                         THEN [s_calls EXCEPT ![n] =
                                  s_execute_exit(s_calls[n], s_sink, s_nextId, result)]
                         ELSE s_calls
           /\ ref' = IF RefSInFlight
                     THEN [ref EXCEPT !.scalls[m] =
                              s_execute_exit(ref.scalls[m], "queue", s_nextId, result)]
                     ELSE ref
    /\ s_nextId' = s_nextId + 2
    /\ UNCHANGED <<s_agents, s_sink, nested_queue>>
    /\ UNCHANGED <<wvars, rvars, bvars, avars, final_text, stream_mode, requests, uuid_next, coerced>>

\* SubAgentTool.execute, line 158: the nested run raises
silent_s_execute_raise ==
    /\ SInFlight \/ RefSInFlight
    /\ s_calls' = IF SInFlight
                  THEN [s_calls EXCEPT ![Len(s_calls)].status = "raised",
                                       ![Len(s_calls)].outcome = "raised"]
                  ELSE s_calls
    /\ ref' = IF RefSInFlight
              THEN [ref EXCEPT !.scalls[Len(ref.scalls)].status = "raised",
                               !.scalls[Len(ref.scalls)].outcome = "raised"]
              ELSE ref
    /\ UNCHANGED <<s_agents, s_sink, s_nextId, nested_queue>>
    /\ UNCHANGED <<wvars, rvars, bvars, avars, final_text, stream_mode, requests, uuid_next, coerced>>

SilentNext ==
    \/ \E kwargs \in SilentArgs : silent_execute_begin(kwargs)
    \/ \E outcome \in SilentOutcomes : silent_execute_finish(outcome)
    \/ \E name \in SilentNames, message \in CallMessages :
          silent_s_execute_begin(name, message, "")
    \/ \E result \in SilentResults : silent_s_execute_finish(result)
    \/ silent_s_execute_raise

SpecSilent == SilentInit /\ [][SilentNext]_vars

\* what a caller and the wrapped tool see of a wrapper call, and what a
\* caller and the registry see of a delegation
WSeen(c) == [status |-> c.status, ret |-> c.ret, invocations |-> Invocations(c),
             passed |-> c.passed, hit |-> c.hit]
SSeen(c) == [status |-> c.status, ret |-> c.ret, runs |-> SRuns(c)]

(***************************************************************************)
(* C31: with no sink attached, lifecycle emission is a silent no-op:       *)
(* ToolCallWrapper.execute and SubAgentTool.execute emit nothing, raise no *)
(* error because of the missing sink, and otherwise behave exactly as with *)
(* a sink: same return value, same tool invocations, same cache updates.   *)
(***************************************************************************)
ClaimC31 ==
    /\ w_sink = "none" /\ s_sink = "none"
    /\ \A i \in CallIdx : Events(w_calls[i]) = <<>>
    /\ \A i \in SCallIdx : SEvents(s_calls[i]) = <<>>
    /\ Len(ref.calls) = Len(w_calls)
    /\ \A i \in CallIdx : WSeen(w_calls[i]) = WSeen(ref.calls[i])
    /\ \A i \in CallIdx : Done(w_calls[i]) => w_calls[i].status = "returned"
    /\ tool_cache = ref.cache
    /\ Len(ref.scalls) = Len(s_calls)
    /\ \A i \in SCallIdx : SSeen(s_calls[i]) = SSeen(ref.scalls[i])

\* without a sink: a call that invoked the tool and stored its result, a
\* call served from the cache, a delegation to an unknown name and one to a
\* registered agent; with the sink every one of them emitted
WitnessC31 ==
    /\ Len(w_calls) = 2 /\ Len(s_calls) = 2
    /\ Invocations(w_calls[1]) = 1 /\ w_calls[1].ret = StrVal(<<"o", "k">>)
    /\ w_calls[2].hit /\ w_calls[2].status = "returned"
    /\ Len(Events(ref.calls[1])) = 2 /\ Len(Events(ref.calls[2])) = 2
    /\ ~s_calls[1].known /\ s_calls[1].status = "returned"
    /\ s_calls[2].known /\ s_calls[2].status = "returned"
    /\ Len(SEvents(ref.scalls[1])) = 1 /\ Len(SEvents(ref.scalls[2])) = 2

(***************************************************************************)
(* Views of a failed call and the call after it                            *)
(***************************************************************************)
\* the step in which the call in flight ends with the tool having raised
ToolRaisesStep ==
    /\ InFlight
    /\ Len(w_calls') = Len(w_calls)
    /\ ToolRaised(w_calls'[Len(w_calls)])

\* the call got as far as its cache lookup and beyond: its own first
\* emission did not raise
PastEntry(c) == ~(c.sinkFailed /\ c.trace = <<>>)

(***************************************************************************)
(* C32: a failed tool call is never cached: when T(I) raises, the wrapper  *)
(* leaves the cache unchanged, so the next call with identical I in the    *)
(* same cache scope is not served from the cache and invokes T again       *)
(* rather than replaying the error.                                        *)
(***************************************************************************)
ClaimC32 ==
    /\ [][ToolRaisesStep => tool_cache' = tool_cache]_vars
    /\ [](\A i \in CallIdx :
            (/\ i + 1 \in CallIdx
             /\ ToolRaised(w_calls[i])
             /\ w_calls[i + 1].args = w_calls[i].args
             /\ PastEntry(w_calls[i + 1]))
            => /\ ~w_calls[i + 1].hit
               /\ Invocations(w_calls[i + 1]) = 1)
    /\ [](\A e \in tool_cache : e.value.t # "err")

\* with a cache and a sink: T raised in the first call, nothing was stored,
\* and the second call with the same arguments invoked T again and got a
\* result
WitnessC32 ==
    /\ Len(w_calls) = 2
    /\ w_ctx.hasCache /\ w_sink = "attached"
    /\ ToolRaised(w_calls[1]) /\ w_calls[1].ret = ErrDict(<<"E">>)
    /\ w_calls[2].args = w_calls[1].args
    /\ Invocations(w_calls[2]) = 1
    /\ w_calls[2].ret = StrVal(<<"o", "k">>)
    /\ Cardinality(tool_cache) = 1

(***************************************************************************)
(* Views of the shape of a tool part                                       *)
(***************************************************************************)
\* the part has the keys its state calls for and no other of the two
WellShaped(p) ==
    /\ p.hasError <=> p.state = "output-error"
    /\ p.hasOutput <=> p.state = "output-available"

(***************************************************************************)
(* C33 (as stated): every tool part emitted by ToolCallWrapper or          *)
(* SubAgentTool carries an errorText field if and only if its state is     *)
(* output-error, and carries an output field if and only if its state is   *)
(* output-available; an input-available part carries neither.              *)
(***************************************************************************)
ClaimC33 ==
    \A i \in 1..Len(CallParts) : \A k \in 1..Len(CallParts[i]) :
        LET p == CallParts[i][k] IN
        /\ WellShaped(p)
        /\ p.state = "input-available" => (~p.hasError /\ ~p.hasOutput)

(***************************************************************************)
(* SubAgentTool._coerce_ai_message over arbitrary nested results           *)
(*                                                                         *)
(* A Python value is a record [t, text, json, id, role, parts].  t is its  *)
(* type: "dict", "str", "none" or "int".  id, role and parts are the       *)
(* values under these keys of a dict, each with its own type ty ("absent"  *)
(* when the key is missing).  For a str, text is the string, json says     *)
(* what json.loads makes of it ("invalid": JSONDecodeError, "deep": the     *)
(* RecursionError of a document nested beyond the interpreter's limit,     *)
(* "dict", or "other" for any other document), and id, role and parts are  *)
(* the keys of the dict it decodes to.  An id string is written as a       *)
(* number.  t = "raised" stands for a call that ended in an exception.     *)
(***************************************************************************)
MaxCoerce == 2

FAbsent == [ty |-> "absent", v |-> <<>>]
FStr(x) == [ty |-> "str", v |-> <<x>>]
FInt == [ty |-> "int", v |-> <<>>]
FText == [ty |-> "str", v |-> <<>>]        \* a str where a list is expected
FList(parts) == [ty |-> "list", v |-> parts]

PyDict(id, role, parts) ==
    [t |-> "dict", text |-> <<>>, json |-> "", id |-> id, role |-> role, parts |-> parts]
PyStr(text, json, id, role, parts) ==
    [t |-> "str", text |-> text, json |-> json, id |-> id, role |-> role, parts |-> parts]
PyNone == [t |-> "none", text |-> <<>>, json |-> "", id |-> FAbsent, role |-> FAbsent,
           parts |-> FAbsent]
PyInt == [t |-> "int", text |-> <<>>, json |-> "", id |-> FAbsent, role |-> FAbsent,
          parts |-> FAbsent]
PyRaised == [t |-> "raised", text |-> <<>>, json |-> "", id |-> FAbsent, role |-> FAbsent,
             parts |-> FAbsent]

CoerceIds == {FStr(90), FInt, FAbsent}
CoerceRoles == {FStr("user"), FAbsent}
CoerceParts == {FList(<<TextPart(<<"A">>, "done")>>), FList(<<>>), FText, FAbsent}

CoerceDicts ==
    {PyDict(id, role, parts) : id \in CoerceIds, role \in CoerceRoles, parts \in CoerceParts}

\* strings: plain text, JSON documents that are no dict, and the JSON
\* documents of some of the dicts above
CoerceStrs ==
    {PyStr(t, "invalid", FAbsent, FAbsent, FAbsent) : t \in {<<>>, <<"A">>}}
    \cup {PyStr(t, "other", FAbsent, FAbsent, FAbsent) : t \in {<<"5">>, <<"null">>}}
    \cup {PyStr(<<"[[[[...">>, "deep", FAbsent, FAbsent, FAbsent)}
    \cup {PyStr(<<"{", id.ty, parts.ty, "}">>, "dict", id, FStr("user"), parts) :
             id \in {FStr(90), FInt}, parts \in {FList(<<>>), FAbsent}}

CoerceInputs == CoerceDicts \cup CoerceStrs \cup {PyNone, PyInt}

\* lines 55-61: _looks_like_ai_message
s_looks_like_ai_message(payload) ==
    /\ payload.t = "dict"
    /\ payload.id.ty = "str"
    /\ payload.role.ty = "str"
    /\ payload.parts.ty = "list"

\* line 68: whether json.loads raises an exception that line 69 does not
\* catch (only json.JSONDecodeError is caught there)
json_loads_escapes(result) == result.json = "deep"

\* lines 67-70: json.loads(result), None where it raises JSONDecodeError
json_loads_or_none(result) ==
    IF result.json = "dict" THEN PyDict(result.id, result.role, result.parts)
    ELSE IF result.json = "other" THEN PyInt
    ELSE PyNone

\* str(result) of a value that is no str
py_str(result) ==
    IF result.t = "none" THEN <<"N", "o", "n", "e">>
    ELSE IF result.t = "int" THEN <<"5">>
    ELSE <<"{", result.id.ty, result.role.ty, result.parts.ty, "}">>

\* lines 73-79 and 80-86: the message built around a text
wrapped_text(freshId, text) ==
    PyDict(FStr(freshId), FStr("assistant"), FList(<<TextPart(text, "done")>>))

\* lines 63-86: _coerce_ai_message
s_coerce_ai_message(result, freshId) ==
    IF s_looks_like_ai_message(result) THEN result
    ELSE IF result.t = "str"
    THEN IF json_loads_escapes(result) THEN PyRaised
         ELSE IF s_looks_like_ai_message(json_loads_or_none(result))
         THEN json_loads_or_none(result)
         ELSE wrapped_text(freshId, result.text)
    ELSE wrapped_text(freshId, py_str(result))

CoerceInit ==
    /\ coerced = <<>>
    /\ s_nextId = 1
    \* the other components stay as constructed
    /\ s_agents = {"researcher"}
    /\ s_sink = "none"
    /\ s_calls = <<>>
    /\ nested_queue = <<>>
    /\ w_tool = "search"
    /\ w_ctx = [hasSid |-> FALSE, hasCache |-> FALSE]
    /\ w_sink = "none"
    /\ tool_cache = {}
    /\ w_calls = <<>>
    /\ w_nextId = 1
    /\ r_state = "idle" /\ r_result = NoText /\ r_puts = <<>>
    /\ task_done = FALSE /\ queue = <<>> /\ agent_timeout = 30
    /\ b_pc = "idle" /\ b_timeout = 120 /\ b_original = 30 /\ b_buffer = <<>>
    /\ b_messageId = 0 /\ b_nextId = 100 /\ b_out = <<>>
    /\ a_pc = "streaming" /\ a_pos = 0 /\ last_text = <<>> /\ sent_role = FALSE
    /\ seen_tool_calls = {} /\ a_frames = <<>>
    /\ requests = <<>> /\ uuid_next = 0 /\ ref = NoRef
    /\ final_text = <<>> /\ stream_mode = "sse"

\* line 159: execute coerces what the nested run returned
coerce_result(result) ==
    /\ Len(coerced) < MaxCoerce
    /\ coerced' = Append(coerced, [arg |-> result, again |-> FALSE,
                                   ret |-> s_coerce_ai_message(result, s_nextId)])
    /\ s_nextId' = s_nextId + 1
    /\ UNCHANGED <<s_agents, s_sink, s_calls, nested_queue>>
    /\ UNCHANGED <<wvars, rvars, bvars, avars, final_text, stream_mode, requests,
                   uuid_next, ref>>

\* _coerce_ai_message applied to a value it returned before
coerce_again(i) ==
    /\ Len(coerced) < MaxCoerce
    /\ i \in 1..Len(coerced)
    /\ coerced[i].ret # PyRaised
    /\ coerced' = Append(coerced, [arg |-> coerced[i].ret, again |-> TRUE,
                                   ret |-> s_coerce_ai_message(coerced[i].ret, s_nextId)])
    /\ s_nextId' = s_nextId + 1
    /\ UNCHANGED <<s_agents, s_sink, s_calls, nested_queue>>
    /\ UNCHANGED <<wvars, rvars, bvars, avars, final_text, stream_mode, requests,
                   uuid_next, ref>>

CoerceNext ==
    \/ \E result \in CoerceInputs : coerce_result(result)
    \/ \E i \in 1..MaxCoerce : coerce_again(i)

SpecCoerce == CoerceInit /\ [][CoerceNext]_vars

\* string id, string role, list parts
Shaped(v) ==
    /\ v.t = "dict"
    /\ v.id.ty = "str" /\ Len(v.id.v) = 1
    /\ v.role.ty = "str" /\ Len(v.role.v) = 1
    /\ v.parts.ty = "list"

(***************************************************************************)
(* C34 (as stated): _coerce_ai_message always returns a                     *)
(* StructuredMessage-shaped value (string id, string role, list parts) for *)
(* any nested result, returns an already well-formed message unchanged,    *)
(* and is idempotent: coercing its own result returns that result          *)
(* unchanged.                                                              *)
(***************************************************************************)
ClaimC34 ==
    \A i \in 1..Len(coerced) :
        LET e == coerced[i] IN
        /\ Shaped(e.ret)
        /\ Shaped(e.arg) => e.ret = e.arg
        /\ e.again => e.ret = e.arg

====
